---- MODULE Spec2Model ----
(***************************************************************************)
(* AutoPunkte: the Payback coupon activator.                               *)
(*                                                                         *)
(* The model follows one process run: activate.py main() checks the        *)
(* credentials, constructs PaybackActivator, runs PaybackActivator.run()   *)
(* (login sequence, merchant loop, summary, evidence capture) inside the   *)
(* browser's "async with" scope, notifies, and classifies the exit code.   *)
(* Every awaited browser call either returns or raises; what the page and  *)
(* the channel answer is chosen nondeterministically.                      *)
(*                                                                         *)
(* Domain assumption: a configuration file that loads is a mapping whose   *)
(* "merchants" is a list of mappings and whose "options" is a mapping.     *)
(***************************************************************************)
EXTENDS Integers, Sequences, FiniteSets, TLC

\* ---------------------------------------------------------------- bounds
MaxMerchants == 2
MaxCoupons == 1
\* the activation script on its own: coupons of a page, invocations on it
MaxPageCoupons == 2
MaxInvocations == 2
\* the buttons a call-to-action element holds
MaxButtons == 2
\* the length of a credential
MaxCredentialLen == 2
\* the outcomes in each list of an aggregate handed to the Notifier
MaxNotifyOutcomes == 2

\* ------------------------------------------------------- program constants
DefaultActivationTimeout == 30

\* ------------------------------------------------------------ text values
ErrNoPartnerId == "No partner_id specified"
ErrNoResults == "Failed to get activation results"
ErrUnknown == "Unknown error"
ErrNoMerchants == "No merchants configured"
ErrCouponCenter == "Coupon center not found"
ErrNoCoupons == "No coupons to activate"
ErrNoResultsFound == "No results found"
ErrJSONDecode == "Expecting value: line 1 column 1 (char 0)"
ErrJSONObject == "Expecting property name enclosed in double quotes"
ErrNotDict == "object has no attribute 'get'"
ErrNotText == "the JSON object must be str, bytes or bytearray, not dict"
LoginFailedPrefix == "Login failed: "
TransportError == "transport error"

\* --------------------------------------------------- python dict helpers
\* dict.get(key, default)
Get(d, k, default) == IF k \in DOMAIN d THEN d[k] ELSE default

\* truth value of dict.get(key) for a flag of the result object (the flags
\* are booleans; a missing key gives None, which is false)
TruthyGet(d, k) == IF k \in DOMAIN d THEN d[k] ELSE FALSE

\* ----------------------------------------------------------- JSON texts
\* A JSON text is a sequence of tokens.  JSON.stringify writes an object as
\* "{" key value ... "}" with the keys in insertion order; json.loads reads
\* such a text back or fails.
KeyOrder == <<"success", "error", "activated", "total", "alreadyActivated">>

LBrace == [t |-> "lbrace"]
RBrace == [t |-> "rbrace"]
KeyTok(k) == [t |-> "key", k |-> k]
ValTok(v) == [t |-> "val", v |-> v]

RECURSIVE StringifyFrom(_, _)
StringifyFrom(obj, i) ==
    IF i > Len(KeyOrder) THEN <<>>
    ELSE (IF KeyOrder[i] \in DOMAIN obj
          THEN <<KeyTok(KeyOrder[i]), ValTok(obj[KeyOrder[i]])>>
          ELSE <<>>) \o StringifyFrom(obj, i + 1)

JSONStringify(obj) == <<LBrace>> \o StringifyFrom(obj, 1) \o <<RBrace>>

\* the members of a JSON object text: alternating key and value tokens
RECURSIVE WellFormedMembers(_)
WellFormedMembers(toks) ==
    IF Len(toks) = 0 THEN TRUE
    ELSE IF Len(toks) = 1 THEN FALSE
    ELSE /\ toks[1].t = "key"
         /\ toks[2].t = "val"
         /\ WellFormedMembers(SubSeq(toks, 3, Len(toks)))

MemberKeys(toks) == {toks[i].k : i \in {j \in 1..Len(toks) : j % 2 = 1}}

\* a later duplicate of a key wins, as in json.loads
MemberValue(toks, k) ==
    LET idxs == {j \in 1..Len(toks) : j % 2 = 1 /\ toks[j].k = k}
        last == CHOOSE j \in idxs : \A j2 \in idxs : j2 <= j
    IN toks[last + 1].v

\* json.loads(text): [ok, dict, value] or [ok |-> FALSE, err]
JSONLoads(text) ==
    IF Len(text) = 0 THEN [ok |-> FALSE, err |-> ErrJSONDecode]
    ELSE IF text[1].t = "val"
    THEN IF Len(text) = 1
         THEN [ok |-> TRUE, dict |-> FALSE, value |-> text[1].v]
         ELSE [ok |-> FALSE, err |-> ErrJSONDecode]
    ELSE IF text[1].t = "lbrace"
    THEN LET inner == SubSeq(text, 2, Len(text) - 1)
         IN IF /\ Len(text) >= 2
               /\ text[Len(text)].t = "rbrace"
               /\ WellFormedMembers(inner)
            THEN [ok |-> TRUE, dict |-> TRUE,
                  value |-> [k \in MemberKeys(inner) |-> MemberValue(inner, k)]]
            ELSE [ok |-> FALSE, err |-> ErrJSONObject]
    ELSE [ok |-> FALSE, err |-> ErrJSONDecode]

\* ------------------------------------------------- the activation script
\* What the activation script finds on a merchant's coupon page.  A coupon
\* is described by how its activation button resolves:
\*   "structural"  one of the structural button selectors resolves
\*   "text"        only the text-content scan finds the button
\*   "activated"   only an already-activated button is there
\*   "missing"     no button at all
\*   "nocta"       no call-to-action element (or it has no shadow root)
\*   "noshadow"    the coupon has no shadow root
\*   "throws"      processing the coupon throws inside the script
CouponKinds ==
    {"structural", "text", "activated", "missing", "nocta", "noshadow", "throws"}

RECURSIVE SeqsUpTo(_, _)
SeqsUpTo(S, n) ==
    IF n = 0 THEN {<<>>}
    ELSE LET shorter == SeqsUpTo(S, n - 1)
         IN shorter \cup {Append(q, x) : q \in {r \in shorter : Len(r) = n - 1}, x \in S}

\* center: #coupon-center exists and has a shadow root;
\* container: one of the container selectors resolves
Pages ==
    {[center |-> FALSE, container |-> FALSE, coupons |-> <<>>],
     [center |-> TRUE, container |-> FALSE, coupons |-> <<>>]}
    \cup {[center |-> TRUE, container |-> TRUE, coupons |-> cs] :
            cs \in SeqsUpTo(CouponKinds, MaxCoupons)}

\* the script clicks the button of a coupon exactly when it resolves one
ButtonResolved(kind) == kind \in {"structural", "text"}

RECURSIVE CountClicks_StopAtError(_, _)
CountClicks_StopAtError(coupons, i) ==
    IF i > Len(coupons) \/ coupons[i] = "throws" THEN 0
    ELSE (IF ButtonResolved(coupons[i]) THEN 1 ELSE 0)
         + CountClicks_StopAtError(coupons, i + 1)

RECURSIVE CountClicks(_, _)
CountClicks(coupons, i) ==
    IF i > Len(coupons) THEN 0
    ELSE (IF ButtonResolved(coupons[i]) THEN 1 ELSE 0) + CountClicks(coupons, i + 1)

ActivationScript_CenterTolerated(page) ==
    IF ~page.center \/ ~page.container
    THEN [success |-> TRUE, error |-> ErrNoCoupons, activated |-> 0, total |-> 0,
          alreadyActivated |-> TRUE]
    ELSE [success |-> TRUE, activated |-> CountClicks(page.coupons, 1),
          total |-> Len(page.coupons)]

ActivationScript_SilentWithoutContainer(page) ==
    IF ~page.center
    THEN [success |-> FALSE, error |-> ErrCouponCenter, activated |-> 0, total |-> 0]
    ELSE IF ~page.container
    THEN [absent |-> TRUE]
    ELSE [success |-> TRUE, activated |-> CountClicks(page.coupons, 1),
          total |-> Len(page.coupons)]

\* the object the script leaves in window.activationResults
ActivationScript(page) ==
    IF ~page.center
    THEN [success |-> FALSE, error |-> ErrCouponCenter, activated |-> 0, total |-> 0]
    ELSE IF ~page.container
    THEN [success |-> TRUE, error |-> ErrNoCoupons, activated |-> 0, total |-> 0,
          alreadyActivated |-> TRUE]
    ELSE [success |-> TRUE, activated |-> CountClicks(page.coupons, 1),
          total |-> Len(page.coupons)]

\* button.click() on the button of coupon i
ClickCall(i) == [op |-> "click", arg |-> "button", merchant |-> 1, coupon |-> i]

\* the clicks one run of the script makes on a page, in order
RECURSIVE ClicksFrom(_, _)
ClicksFrom(coupons, i) ==
    IF i > Len(coupons) THEN <<>>
    ELSE (IF ButtonResolved(coupons[i]) THEN <<ClickCall(i)>> ELSE <<>>)
         \o ClicksFrom(coupons, i + 1)

PageClicks(page) ==
    IF page.center /\ page.container THEN ClicksFrom(page.coupons, 1) ELSE <<>>

\* the pages the script is run against on its own
ScriptPages ==
    {[center |-> FALSE, container |-> FALSE, coupons |-> <<>>],
     [center |-> TRUE, container |-> FALSE, coupons |-> <<>>]}
    \cup {[center |-> TRUE, container |-> TRUE, coupons |-> cs] :
            cs \in SeqsUpTo(CouponKinds, MaxPageCoupons)}

\* button.click(): the site turns the clicked button into an activated one,
\* or leaves it as it was; a coupon that was not clicked stays as it was
AfterClick(kind) == IF ButtonResolved(kind) THEN {kind, "activated"} ELSE {kind}

PagesAfterScript(page) ==
    IF ~page.center \/ ~page.container THEN {page}
    ELSE {[page EXCEPT !.coupons = cs] :
            cs \in {q \in SeqsUpTo(CouponKinds, Len(page.coupons)) :
                        /\ Len(q) = Len(page.coupons)
                        /\ \A i \in 1..Len(q) : q[i] \in AfterClick(page.coupons[i])}}

\* the second script: window.activationResultsJSON from window.activationResults
NoWindowValue == [absent |-> TRUE]
\* window.activationResultsJSON not set (a stored text is never empty)
NoWindowText == <<>>

StoreResultsJSON(windowResults) ==
    IF windowResults # NoWindowValue
    THEN JSONStringify(windowResults)
    ELSE JSONStringify([success |-> FALSE, error |-> ErrNoResultsFound])

\* --------------------------------------- what the result retrieval returns
\* page.execute_script("window.activationResultsJSON") hands back
\*   [kind |-> "none"]                 None
\*   [kind |-> "str", s |-> text]      the bare JSON text
\*   [kind |-> "dict", d |-> mapping]  an envelope object
EmptyDict == [k \in {} |-> k]
EmptyObjectText == <<LBrace, RBrace>>

NotRetrieved == [kind |-> "unset"]
NoneValue == [kind |-> "none"]
BareValue(text) == [kind |-> "str", s |-> text]
EnvelopeValue(text) ==
    [kind |-> "dict", d |-> [result |-> [result |-> [value |-> text]]]]
\* the envelope of an undefined page value: no "value" under result.result
EnvelopeNoValue ==
    [kind |-> "dict", d |-> [result |-> [result |-> [type |-> "undefined"]]]]
\* an envelope whose "result" holds nothing
EnvelopeNoInner == [kind |-> "dict", d |-> [result |-> EmptyDict]]
\* an object without the "result" key
ForeignDict == [kind |-> "dict", d |-> [id |-> "1"]]

\* texts the channel can deliver in place of the stored text: cut short, or
\* a JSON text that is no object
Truncated(text) == SubSeq(text, 1, Len(text) - 1)
ScalarText == <<ValTok(0)>>
DeliveredTexts(text) == {text, Truncated(text), ScalarText}

\* None, the empty string, or the text (bare or in the envelope)
WireValues(windowJSON) ==
    {NoneValue, BareValue(<<>>), EnvelopeNoValue, EnvelopeNoInner, ForeignDict}
    \cup (IF windowJSON = NoWindowText THEN {}
          ELSE {BareValue(t) : t \in DeliveredTexts(windowJSON)}
               \cup {EnvelopeValue(t) : t \in DeliveredTexts(windowJSON)})

Falsy_NoneOnly(rj) == rj.kind = "none"

\* Python truth value of results_json
Falsy(rj) ==
    \/ rj.kind = "none"
    \/ rj.kind = "str" /\ Len(rj.s) = 0
    \/ rj.kind = "dict" /\ DOMAIN rj.d = {}

FailedOutcome(partner_name, partner_id, error) ==
    [partner_name |-> partner_name, partner_id |-> partner_id,
     error |-> error, success |-> FALSE]

SuccessOutcome_KeepsError(partner_name, partner_id, results) ==
    [partner_name |-> partner_name, partner_id |-> partner_id,
     activated |-> Get(results, "activated", 0),
     total |-> Get(results, "total", 0),
     success |-> TRUE,
     alreadyActivated |-> Get(results, "alreadyActivated", FALSE),
     error |-> Get(results, "error", "")]

SuccessOutcome(partner_name, partner_id, results) ==
    [partner_name |-> partner_name, partner_id |-> partner_id,
     activated |-> Get(results, "activated", 0),
     total |-> Get(results, "total", 0),
     success |-> TRUE,
     alreadyActivated |-> Get(results, "alreadyActivated", FALSE)]

OutcomeOfResults_SuccessByDefault(partner_name, partner_id, results) ==
    IF Get(results, "success", TRUE)
    THEN SuccessOutcome(partner_name, partner_id, results)
    ELSE FailedOutcome(partner_name, partner_id, Get(results, "error", ErrUnknown))

\* the outcome built from a decoded result object
OutcomeOfResults(partner_name, partner_id, results) ==
    IF TruthyGet(results, "success")
    THEN SuccessOutcome(partner_name, partner_id, results)
    ELSE FailedOutcome(partner_name, partner_id, Get(results, "error", ErrUnknown))

OutcomeOfText_SwallowParseError(partner_name, partner_id, text) ==
    LET parsed == JSONLoads(text)
    IN IF ~parsed.ok \/ ~parsed.dict
       THEN OutcomeOfResults(partner_name, partner_id, EmptyDict)
       ELSE OutcomeOfResults(partner_name, partner_id, parsed.value)

\* json.loads and the use of its value, with the except branch
OutcomeOfText(partner_name, partner_id, text) ==
    LET parsed == JSONLoads(text)
    IN IF ~parsed.ok THEN FailedOutcome(partner_name, partner_id, parsed.err)
       ELSE IF ~parsed.dict THEN FailedOutcome(partner_name, partner_id, ErrNotDict)
       ELSE OutcomeOfResults(partner_name, partner_id, parsed.value)

EnvelopeText_WrongPath(d) ==
    Get(Get(d, "result", EmptyDict), "value", EmptyObjectText)

\* the text taken out of an envelope object
EnvelopeText(d) ==
    Get(Get(Get(d, "result", EmptyDict), "result", EmptyDict), "value", EmptyObjectText)

\* activate_coupons_for_partner from the retrieved value on
ProcessResults(partner_name, partner_id, rj) ==
    IF Falsy(rj) THEN FailedOutcome(partner_name, partner_id, ErrNoResults)
    ELSE IF rj.kind = "dict" /\ "result" \in DOMAIN rj.d
    THEN OutcomeOfText(partner_name, partner_id, EnvelopeText(rj.d))
    ELSE IF rj.kind = "dict"
    THEN FailedOutcome(partner_name, partner_id, ErrNotText)
    ELSE OutcomeOfText(partner_name, partner_id, rj.s)

\* ------------------------------------------------------ the configuration
\* The merchants a configuration file may list, in the order it lists them:
\* a configuration is a selection of at most MaxMerchants of them.
MerchantPool ==
    <<[name |-> "Aral", partner_id |-> ""],
      [name |-> "REWE", partner_id |-> "rewe"],
      [name |-> "Penny"],
      [name |-> "dm", partner_id |-> "dm"]>>

RECURSIVE Selections(_)
Selections(pool) ==
    IF Len(pool) = 0 THEN {<<>>}
    ELSE LET rest == Selections(Tail(pool))
         IN rest \cup {<<Head(pool)>> \o q : q \in rest}

Unreadable == [unreadable |-> TRUE]

ConfigFiles ==
    {Unreadable}
    \cup {[merchants |-> ms] :
            ms \in {q \in Selections(MerchantPool) : Len(q) <= MaxMerchants}}

\* _load_config's fallback value
DefaultConfig ==
    [merchants |-> <<>>, options |-> [activation_timeout |-> DefaultActivationTimeout]]

merchant_name(m) == Get(m, "name", "Unknown")

partner_id_DefaultUnknown(m) == Get(m, "partner_id", "Unknown")

partner_id(m) == Get(m, "partner_id", "")

\* ------------------------------------------------------------------ state
VARIABLES
    pc,                 \* position in main() / run()
    username,           \* credentials as main() resolved them ("" = not given)
    password,
    no_notify,          \* --no-notify, as main() reads it after run()
    config,             \* PaybackActivator.config
    is_github_actions,  \* PaybackActivator.is_github_actions
    debug_mode,         \* PaybackActivator.debug_mode
    browserOpen,        \* inside the "async with Chrome(...)" scope
    calls,              \* the page and browser calls issued so far, in order
    idx,                \* position of the merchant loop (1-based)
    windowResults,      \* window.activationResults of the current page
    windowJSON,         \* window.activationResultsJSON of the current page
    loginSuccessIndicators, \* window.loginSuccessIndicators of the current page
    results_json,       \* activate_coupons_for_partner's local results_json
    activation_results,
    successful,
    failed,
    total_activated,
    total_available,
    results,            \* what run() returned
    raised,             \* an exception is propagating / has reached main()
    notified,           \* Notifier.notify returned True
    exitCode,
    document,           \* the coupon page the script is run against on its own
    invocations,        \* how often the script has run against it
    cta,                \* a coupon's call-to-action, as the selectors see it
    button,             \* the script's "button" for that coupon (0 = null)
    tried,              \* the lookups made for it so far, in order
    clicked,            \* the button that got the click (0 = none)
    username_script,    \* the script text built around self.username
    password_script,    \* the script text built around self.password
    inputValues,        \* what the page made of the two scripts
    options,            \* Notifier.options
    results_file        \* the activation_results_<timestamp>.json file

vars == <<pc, username, password, no_notify, config, is_github_actions, debug_mode,
          browserOpen, calls, idx, windowResults, windowJSON, results_json,
          activation_results, successful, failed, total_activated, total_available, results, raised,
          notified, exitCode, document, invocations, loginSuccessIndicators,
          cta, button, tried, clicked, username_script, password_script, inputValues,
          options, results_file>>

runVars == <<idx, windowResults, windowJSON, results_json, activation_results,
             successful, failed, total_activated, total_available>>
mainVars == <<username, password, no_notify, config, is_github_actions, debug_mode>>
scriptVars == <<document, invocations>>
buttonVars == <<cta, button, tried, clicked>>
loginScriptVars == <<username_script, password_script, inputValues>>
notifierVars == <<options, results_file>>
isolatedVars == <<buttonVars, loginScriptVars, notifierVars>>

NoResults == [pending |-> TRUE]
NoConfig == [pending |-> TRUE]
NoDocument == [absent |-> TRUE]
NoCta == [absent |-> TRUE]
NoScript == <<>>
NoInputValues == [pending |-> TRUE]
NoOptions == [pending |-> TRUE]
NoResultsFile == [written |-> FALSE]
\* run(): merchants = self.config.get("merchants", [])
merchants == Get(config, "merchants", <<>>)

Call(op, arg, m) == [op |-> op, arg |-> arg, merchant |-> m]

Init ==
    /\ pc = "main"
    /\ username \in {"", "user"}
    /\ password \in {"", "secret"}
    /\ no_notify = FALSE
    /\ config = NoConfig
    /\ is_github_actions = FALSE
    /\ debug_mode = FALSE
    /\ browserOpen = FALSE
    /\ calls = <<>>
    /\ idx = 1
    /\ windowResults = NoWindowValue
    /\ windowJSON = NoWindowText
    /\ loginSuccessIndicators = NoWindowValue
    /\ results_json = NotRetrieved
    /\ activation_results = <<>>
    /\ successful = <<>>
    /\ failed = <<>>
    /\ total_activated = 0
    /\ total_available = 0
    /\ results = NoResults
    /\ raised = FALSE
    /\ notified = FALSE
    /\ exitCode = -1
    /\ document = NoDocument
    /\ invocations = 0
    /\ cta = NoCta
    /\ button = 0
    /\ tried = <<>>
    /\ clicked = 0
    /\ username_script = NoScript
    /\ password_script = NoScript
    /\ inputValues = NoInputValues
    /\ options = NoOptions
    /\ results_file = NoResultsFile

Propagate_SkipTeardown ==
    /\ raised' = TRUE
    /\ pc' = "main_except"

\* An exception leaves run(): the "async with" scope is left first.
Propagate ==
    /\ raised' = TRUE
    /\ pc' = IF browserOpen THEN "teardown" ELSE "main_except"

\* A page call that either returns, and run() goes on at `to`, or raises.
PageCall(from, to, call) ==
    /\ pc = from
    /\ calls' = Append(calls, call)
    /\ \/ pc' = to /\ UNCHANGED raised
       \/ Propagate

\* ----------------------------------------------------------------- main()
CheckCredentials_UsernameOnly ==
    /\ pc = "main"
    /\ IF username = ""
       THEN pc' = "exited" /\ exitCode' = 1
       ELSE pc' = "construct" /\ UNCHANGED exitCode
    /\ UNCHANGED <<mainVars, scriptVars, isolatedVars, runVars, loginSuccessIndicators, browserOpen, calls, results, raised, notified>>

\* activate.py: credentials from the flags or the environment
CheckCredentials ==
    /\ pc = "main"
    /\ IF username = "" \/ password = ""
       THEN pc' = "exited" /\ exitCode' = 1
       ELSE pc' = "construct" /\ UNCHANGED exitCode
    /\ UNCHANGED <<mainVars, scriptVars, isolatedVars, runVars, loginSuccessIndicators, browserOpen, calls, results, raised, notified>>

\* main_async: PaybackActivator.__init__ with _load_config.  When the file
\* cannot be read, the except branch of _load_config uses self.logger, which
\* __init__ assigns only after _load_config returned: AttributeError.
Construct ==
    /\ pc = "construct"
    /\ \E file \in ConfigFiles, gha \in BOOLEAN, dbg \in BOOLEAN :
        /\ is_github_actions' = gha
        /\ debug_mode' = dbg
        /\ IF file = Unreadable
           THEN /\ Propagate
                /\ UNCHANGED config
           ELSE /\ config' = file
                /\ pc' = "run"
                /\ UNCHANGED raised
    /\ UNCHANGED <<username, password, no_notify, scriptVars, isolatedVars, runVars, loginSuccessIndicators, browserOpen,
                   calls, results, notified, exitCode>>

\* ------------------------------------------------------------------ run()
RunNoMerchants ==
    /\ pc = "run"
    /\ Len(merchants) = 0
    /\ results' = [successful |-> <<>>, failed |-> <<>>, error |-> ErrNoMerchants]
    /\ pc' = "notify"
    /\ UNCHANGED <<mainVars, scriptVars, isolatedVars, runVars, loginSuccessIndicators, browserOpen, calls, raised, notified, exitCode>>

EnterBrowser_Always ==
    /\ pc = "run"
    /\ browserOpen' = TRUE
    /\ pc' = "start"
    /\ UNCHANGED <<mainVars, scriptVars, isolatedVars, runVars, loginSuccessIndicators, calls, results, raised, notified, exitCode>>

\* async with Chrome(options=browser_options) as browser
EnterBrowser ==
    /\ pc = "run"
    /\ Len(merchants) > 0
    /\ browserOpen' = TRUE
    /\ pc' = "start"
    /\ UNCHANGED <<mainVars, scriptVars, isolatedVars, runVars, loginSuccessIndicators, calls, results, raised, notified, exitCode>>

StartBrowser ==
    /\ PageCall("start", "user_agent", Call("start", "browser", 0))
    /\ UNCHANGED <<mainVars, scriptVars, isolatedVars, runVars, loginSuccessIndicators, browserOpen, results, notified, exitCode>>

SetUserAgent ==
    /\ PageCall("user_agent", "login", Call("execute_script", "user_agent", 0))
    /\ UNCHANGED <<mainVars, scriptVars, isolatedVars, runVars, loginSuccessIndicators, browserOpen, results, notified, exitCode>>

GoToLogin ==
    /\ PageCall("login", "consent", Call("go_to", "login", 0))
    /\ UNCHANGED <<mainVars, scriptVars, isolatedVars, runVars, loginSuccessIndicators, browserOpen, results, notified, exitCode>>

ClickContinue_SkipPassword ==
    /\ PageCall("continue", "submit", Call("execute_script", "continue", 0))
    /\ UNCHANGED <<mainVars, scriptVars, isolatedVars, runVars, loginSuccessIndicators, browserOpen, results, notified, exitCode>>

CookieConsent_FailureRaises ==
    /\ pc = "consent"
    /\ \/ /\ calls' = calls \o <<Call("find_element", "cookie", 0), Call("click", "cookie", 0)>>
          /\ pc' = "username"
          /\ UNCHANGED raised
       \/ /\ calls' = Append(calls, Call("find_element", "cookie", 0))
          /\ Propagate
    /\ UNCHANGED <<mainVars, scriptVars, isolatedVars, runVars, loginSuccessIndicators, browserOpen, results, notified, exitCode>>

\* the cookie button: a failure to find or click it is logged and ignored
CookieConsent ==
    /\ pc = "consent"
    /\ \/ calls' = calls \o <<Call("find_element", "cookie", 0), Call("click", "cookie", 0)>>
       \/ calls' = Append(calls, Call("find_element", "cookie", 0))
    /\ pc' = "username"
    /\ UNCHANGED <<mainVars, scriptVars, isolatedVars, runVars, loginSuccessIndicators, browserOpen, results, raised, notified, exitCode>>

EnterUsername ==
    /\ PageCall("username", "continue", Call("execute_script", "username", 0))
    /\ UNCHANGED <<mainVars, scriptVars, isolatedVars, runVars, loginSuccessIndicators, browserOpen, results, notified, exitCode>>

ClickContinue ==
    /\ PageCall("continue", "password", Call("execute_script", "continue", 0))
    /\ UNCHANGED <<mainVars, scriptVars, isolatedVars, runVars, loginSuccessIndicators, browserOpen, results, notified, exitCode>>

EnterPassword ==
    /\ PageCall("password", "submit", Call("execute_script", "password", 0))
    /\ UNCHANGED <<mainVars, scriptVars, isolatedVars, runVars, loginSuccessIndicators, browserOpen, results, notified, exitCode>>

ClickLogin_SkipProbe ==
    /\ PageCall("submit", "loop", Call("execute_script", "submit", 0))
    /\ UNCHANGED <<mainVars, scriptVars, isolatedVars, runVars, loginSuccessIndicators, browserOpen, results, notified, exitCode>>

ClickLogin ==
    /\ PageCall("submit", "probe", Call("execute_script", "submit", 0))
    /\ UNCHANGED <<mainVars, scriptVars, isolatedVars, runVars, loginSuccessIndicators, browserOpen, results, notified, exitCode>>

CheckLoginStatus_NotCaught ==
    /\ PageCall("probe", "loop", Call("execute_script", "probe", 0))
    /\ UNCHANGED <<mainVars, scriptVars, isolatedVars, runVars, loginSuccessIndicators, browserOpen, results, notified, exitCode>>

\* what the probe script can find on the page after the login click
LoginIndicators ==
    {[userMenuFound |-> menu, couponCount |-> cards] :
        menu \in BOOLEAN, cards \in 0..1}

CheckLoginStatus_RequiresMarker ==
    /\ pc = "probe"
    /\ calls' = Append(calls, Call("execute_script", "probe", 0))
    /\ \/ \E found \in LoginIndicators :
            /\ loginSuccessIndicators' = found
            /\ IF found.userMenuFound \/ found.couponCount > 0
               THEN pc' = "loop" /\ UNCHANGED results
               ELSE /\ results' = [successful |-> <<>>, failed |-> <<>>,
                                   error |-> LoginFailedPrefix \o TransportError]
                    /\ pc' = "teardown"
       \/ /\ results' = [successful |-> <<>>, failed |-> <<>>,
                         error |-> LoginFailedPrefix \o TransportError]
          /\ pc' = "teardown"
          /\ UNCHANGED loginSuccessIndicators
    /\ UNCHANGED <<mainVars, scriptVars, isolatedVars, runVars, browserOpen, raised, notified, exitCode>>

\* the login-status probe: it stores what it found in the page and nothing
\* reads that; its failure is caught and run() returns early
CheckLoginStatus ==
    /\ pc = "probe"
    /\ calls' = Append(calls, Call("execute_script", "probe", 0))
    /\ \/ /\ \E found \in LoginIndicators : loginSuccessIndicators' = found
          /\ pc' = "loop"
          /\ UNCHANGED results
       \/ /\ results' = [successful |-> <<>>, failed |-> <<>>,
                         error |-> LoginFailedPrefix \o TransportError]
          /\ pc' = "teardown"
          /\ UNCHANGED loginSuccessIndicators
    /\ UNCHANGED <<mainVars, scriptVars, isolatedVars, runVars, browserOpen, raised, notified, exitCode>>

\* -------------------------------------------------------- the merchant loop
SkipMerchant_NoRecord ==
    /\ pc = "loop"
    /\ idx <= Len(merchants)
    /\ partner_id(merchants[idx]) = ""
    /\ idx' = idx + 1
    /\ UNCHANGED <<loginSuccessIndicators, pc, mainVars, scriptVars, isolatedVars, browserOpen, calls, windowResults, windowJSON,
                   results_json, activation_results, successful, failed,
                   total_activated, total_available, results, raised, notified,
                   exitCode>>

\* a merchant without partner_id: recorded as failed, nothing else happens
SkipMerchant ==
    /\ pc = "loop"
    /\ idx <= Len(merchants)
    /\ partner_id(merchants[idx]) = ""
    /\ failed' = Append(failed, [partner_name |-> merchant_name(merchants[idx]),
                                 error |-> ErrNoPartnerId,
                                 success |-> FALSE])
    /\ idx' = idx + 1
    /\ UNCHANGED <<loginSuccessIndicators, pc, mainVars, scriptVars, isolatedVars, browserOpen, calls, windowResults, windowJSON,
                   results_json, activation_results, successful, total_activated,
                   total_available, results, raised, notified, exitCode>>

NavigateMerchant_SkipScript ==
    /\ pc = "loop"
    /\ idx <= Len(merchants)
    /\ partner_id(merchants[idx]) # ""
    /\ calls' = Append(calls, Call("go_to", partner_id(merchants[idx]), idx))
    /\ \/ /\ pc' = "m_store"
          /\ windowResults' = NoWindowValue
          /\ windowJSON' = NoWindowText
          /\ loginSuccessIndicators' = NoWindowValue
          /\ UNCHANGED raised
       \/ /\ Propagate
          /\ UNCHANGED <<windowResults, windowJSON, loginSuccessIndicators>>
    /\ UNCHANGED <<mainVars, scriptVars, isolatedVars, browserOpen, idx, results_json, activation_results,
                   successful, failed, total_activated, total_available, results,
                   notified, exitCode>>

\* activate_coupons_for_partner: page.go_to(coupons?partnerId=...); the new
\* document has neither window.activationResults nor activationResultsJSON
NavigateMerchant ==
    /\ pc = "loop"
    /\ idx <= Len(merchants)
    /\ partner_id(merchants[idx]) # ""
    /\ calls' = Append(calls, Call("go_to", partner_id(merchants[idx]), idx))
    /\ \/ /\ pc' = IF debug_mode \/ is_github_actions THEN "m_debug" ELSE "m_activate"
          /\ windowResults' = NoWindowValue
          /\ windowJSON' = NoWindowText
          /\ loginSuccessIndicators' = NoWindowValue
          /\ UNCHANGED raised
       \/ /\ Propagate
          /\ UNCHANGED <<windowResults, windowJSON, loginSuccessIndicators>>
    /\ UNCHANGED <<mainVars, scriptVars, isolatedVars, browserOpen, idx, results_json, activation_results,
                   successful, failed, total_activated, total_available, results,
                   notified, exitCode>>

\* the debug screenshot before the activation attempt
DebugScreenshot ==
    /\ PageCall("m_debug", "m_activate", Call("screenshot", "debug", idx))
    /\ UNCHANGED <<mainVars, scriptVars, isolatedVars, runVars, loginSuccessIndicators, browserOpen, results, notified, exitCode>>

\* the activation script runs against whatever page was rendered; it may
\* also die of a script error before it assigned window.activationResults
RunActivationScript ==
    /\ pc = "m_activate"
    /\ calls' = Append(calls, Call("execute_script", "activate", idx))
    /\ \/ /\ \E page \in Pages : windowResults' = ActivationScript(page)
          /\ pc' = "m_store"
          /\ UNCHANGED raised
       \/ /\ pc' = "m_store"
          /\ UNCHANGED <<windowResults, raised>>
       \/ /\ Propagate
          /\ UNCHANGED windowResults
    /\ UNCHANGED <<loginSuccessIndicators, mainVars, scriptVars, isolatedVars, browserOpen, idx, windowJSON, results_json,
                   activation_results, successful, failed, total_activated,
                   total_available, results, notified, exitCode>>

\* the second script stores the JSON text of the result object
StoreResults ==
    /\ pc = "m_store"
    /\ calls' = Append(calls, Call("execute_script", "store", idx))
    /\ \/ /\ windowJSON' = StoreResultsJSON(windowResults)
          /\ pc' = "m_retrieve"
          /\ UNCHANGED raised
       \/ /\ Propagate
          /\ UNCHANGED windowJSON
    /\ UNCHANGED <<loginSuccessIndicators, mainVars, scriptVars, isolatedVars, browserOpen, idx, windowResults, results_json,
                   activation_results, successful, failed, total_activated,
                   total_available, results, notified, exitCode>>

\* run(): the outcome goes to successful or to failed by its success flag,
\* and the loop goes on with the next merchant
successfulAfter_Prepend(result) ==
    IF Get(result, "success", FALSE) THEN <<result>> \o successful ELSE successful

successfulAfter(result) ==
    IF Get(result, "success", FALSE) THEN Append(successful, result) ELSE successful

failedAfter_Always(result) == Append(failed, result)

failedAfter(result) ==
    IF Get(result, "success", FALSE) THEN failed ELSE Append(failed, result)

NextPcAfterOutcome_StopOnFailure(result) ==
    IF Get(result, "success", FALSE) THEN "loop" ELSE "ev_navigate"

NextPcAfterOutcome(result) == "loop"

\* the third round-trip reads the stored text
RetrieveResults ==
    /\ pc = "m_retrieve"
    /\ calls' = Append(calls, Call("execute_script", "retrieve", idx))
    /\ \/ /\ \E rj \in WireValues(windowJSON) : results_json' = rj
          /\ pc' = "m_process"
          /\ UNCHANGED raised
       \/ /\ Propagate
          /\ UNCHANGED results_json
    /\ UNCHANGED <<loginSuccessIndicators, mainVars, scriptVars, isolatedVars, browserOpen, idx, windowResults, windowJSON,
                   activation_results, successful, failed, total_activated,
                   total_available, results, notified, exitCode>>

RecordOutcome_NoExcept ==
    /\ pc = "m_process"
    /\ LET result == ProcessResults(merchant_name(merchants[idx]),
                                    partner_id(merchants[idx]), results_json)
       IN IF ~result.success /\ result.error \in {ErrJSONDecode, ErrJSONObject, ErrNotDict}
          THEN /\ Propagate
               /\ UNCHANGED <<activation_results, successful, failed, idx, results_json>>
          ELSE /\ activation_results' = Append(activation_results, result)
               /\ successful' = successfulAfter(result)
               /\ failed' = failedAfter(result)
               /\ idx' = idx + 1
               /\ results_json' = NotRetrieved
               /\ pc' = NextPcAfterOutcome(result)
               /\ UNCHANGED raised
    /\ UNCHANGED <<loginSuccessIndicators, mainVars, scriptVars, isolatedVars, browserOpen, calls, windowResults, windowJSON,
                   total_activated, total_available, results, notified, exitCode>>

RecordOutcome_RetryOnFailure ==
    /\ pc = "m_process"
    /\ LET result == ProcessResults(merchant_name(merchants[idx]),
                                    partner_id(merchants[idx]), results_json)
       IN /\ activation_results' = Append(activation_results, result)
          /\ successful' = successfulAfter(result)
          /\ failed' = failedAfter(result)
          /\ idx' = IF result.success THEN idx + 1 ELSE idx
          /\ results_json' = NotRetrieved
          /\ pc' = NextPcAfterOutcome(result)
    /\ UNCHANGED <<loginSuccessIndicators, mainVars, scriptVars, isolatedVars, browserOpen, calls, windowResults, windowJSON,
                   total_activated, total_available, results, raised, notified,
                   exitCode>>

\* the retrieved value is turned into the merchant's outcome (no page call is
\* involved), which run() appends to activation_results and to successful or
\* failed
RecordOutcome ==
    /\ pc = "m_process"
    /\ LET result == ProcessResults(merchant_name(merchants[idx]),
                                    partner_id(merchants[idx]), results_json)
       IN /\ activation_results' = Append(activation_results, result)
          /\ successful' = successfulAfter(result)
          /\ failed' = failedAfter(result)
          /\ idx' = idx + 1
          /\ results_json' = NotRetrieved
          /\ pc' = NextPcAfterOutcome(result)
    /\ UNCHANGED <<loginSuccessIndicators, mainVars, scriptVars, isolatedVars, browserOpen, calls, windowResults, windowJSON,
                   total_activated, total_available, results, raised, notified,
                   exitCode>>

\* ------------------------------------------------- summary and evidence
RECURSIVE SumSuccessful_Totals(_, _, _)
SumSuccessful_Totals(rs, field, i) ==
    IF i > Len(rs) THEN 0
    ELSE (IF Get(rs[i], "success", FALSE) THEN Get(rs[i], "total", 0) ELSE 0)
         + SumSuccessful_Totals(rs, field, i + 1)

\* run(): the totals are summed over the results whose success flag is set
RECURSIVE SumSuccessful(_, _, _)
SumSuccessful(rs, field, i) ==
    IF i > Len(rs) THEN 0
    ELSE (IF Get(rs[i], "success", FALSE) THEN Get(rs[i], field, 0) ELSE 0)
         + SumSuccessful(rs, field, i + 1)

Summary ==
    /\ pc = "loop"
    /\ idx > Len(merchants)
    /\ total_activated' = SumSuccessful(activation_results, "activated", 1)
    /\ total_available' = SumSuccessful(activation_results, "total", 1)
    /\ pc' = "ev_navigate"
    /\ UNCHANGED <<loginSuccessIndicators, mainVars, scriptVars, isolatedVars, browserOpen, calls, idx, windowResults, windowJSON,
                   results_json, activation_results, successful, failed, results,
                   raised, notified, exitCode>>

\* back to the unfiltered overview: a new document again
EvidenceNavigate ==
    /\ pc = "ev_navigate"
    /\ calls' = Append(calls, Call("go_to", "", 0))
    /\ \/ /\ pc' = "ev_screenshot"
          /\ windowResults' = NoWindowValue
          /\ windowJSON' = NoWindowText
          /\ loginSuccessIndicators' = NoWindowValue
          /\ UNCHANGED raised
       \/ /\ Propagate
          /\ UNCHANGED <<windowResults, windowJSON, loginSuccessIndicators>>
    /\ UNCHANGED <<mainVars, scriptVars, isolatedVars, browserOpen, idx, results_json, activation_results,
                   successful, failed, total_activated, total_available, results,
                   notified, exitCode>>

EvidenceScreenshot ==
    /\ PageCall("ev_screenshot", "ev_source", Call("get_screenshot", "overview", 0))
    /\ UNCHANGED <<mainVars, scriptVars, isolatedVars, runVars, loginSuccessIndicators, browserOpen, results, notified, exitCode>>

EvidencePageSource ==
    /\ PageCall("ev_source", "ev_save", Call("page_source", "overview", 0))
    /\ UNCHANGED <<mainVars, scriptVars, isolatedVars, runVars, loginSuccessIndicators, browserOpen, results, notified, exitCode>>

EvidenceSave_WriteFailureRaises ==
    /\ pc = "ev_save"
    /\ \/ /\ results' = [successful |-> successful, failed |-> failed,
                          total_activated |-> total_activated,
                          total_available |-> total_available,
                          screenshot_path |-> "payback_coupons.png",
                          html_path |-> "payback_coupons.html",
                          html_written |-> TRUE]
          /\ pc' = "teardown"
          /\ UNCHANGED raised
       \/ /\ Propagate
          /\ UNCHANGED results
    /\ UNCHANGED <<mainVars, scriptVars, isolatedVars, runVars, loginSuccessIndicators, browserOpen, calls, notified, exitCode>>

\* writing the markup file may fail (caught); then run() returns the aggregate
EvidenceSave ==
    /\ pc = "ev_save"
    /\ \E written \in BOOLEAN :
        results' = [successful |-> successful, failed |-> failed,
                    total_activated |-> total_activated,
                    total_available |-> total_available,
                    screenshot_path |-> "payback_coupons.png",
                    html_path |-> "payback_coupons.html",
                    html_written |-> written]
    /\ pc' = "teardown"
    /\ UNCHANGED <<mainVars, scriptVars, isolatedVars, runVars, loginSuccessIndicators, browserOpen, calls, raised, notified, exitCode>>

Teardown_SwallowException ==
    /\ pc = "teardown"
    /\ browserOpen' = FALSE
    /\ pc' = "notify"
    /\ UNCHANGED <<mainVars, scriptVars, isolatedVars, runVars, loginSuccessIndicators, calls, results, raised, notified, exitCode>>

\* leaving the "async with" scope, by return or by exception
Teardown ==
    /\ pc = "teardown"
    /\ browserOpen' = FALSE
    /\ pc' = IF raised THEN "main_except" ELSE "notify"
    /\ UNCHANGED <<mainVars, scriptVars, isolatedVars, runVars, loginSuccessIndicators, calls, results, raised, notified, exitCode>>

\* ----------------------------------------------------- back in main()
\* Notifier re-reads the configuration file for its options
ShouldNotify_BothRequired(res, opts) ==
    /\ Len(Get(res, "successful", <<>>)) > 0 /\ Get(opts, "notify_on_success", TRUE)
    /\ Len(Get(res, "failed", <<>>)) > 0 /\ Get(opts, "notify_on_failure", TRUE)

ShouldNotify(res, opts) ==
    \/ Len(Get(res, "successful", <<>>)) > 0 /\ Get(opts, "notify_on_success", TRUE)
    \/ Len(Get(res, "failed", <<>>)) > 0 /\ Get(opts, "notify_on_failure", TRUE)

OptionSets ==
    {EmptyDict}
    \cup {[notify_on_success |-> a] : a \in BOOLEAN}
    \cup {[notify_on_failure |-> b] : b \in BOOLEAN}
    \cup {[notify_on_success |-> a, notify_on_failure |-> b] : a, b \in BOOLEAN}

Notify ==
    /\ pc = "notify"
    /\ \E flag \in BOOLEAN :
        /\ no_notify' = flag
        /\ IF flag
           THEN UNCHANGED notified
           ELSE \E opts \in OptionSets : notified' = ShouldNotify(results, opts)
    /\ pc' = "classify"
    /\ UNCHANGED <<username, password, config, is_github_actions, debug_mode,
                   scriptVars, isolatedVars, runVars, loginSuccessIndicators, browserOpen, calls, results, raised, exitCode>>

ExitStatus_AnyFailure(res) == IF Len(res.failed) > 0 THEN 1 ELSE 0

ExitStatus_ErrorKeyFails(res) ==
    IF "error" \in DOMAIN res THEN 1
    ELSE IF Len(res.failed) > 0 /\ Len(res.successful) = 0 THEN 1
    ELSE 0

\* the exit code from the aggregate
ExitStatus(res) ==
    IF Len(res.failed) > 0 /\ Len(res.successful) = 0 THEN 1
    ELSE IF Len(res.failed) > 0 THEN 0
    ELSE 0

Classify ==
    /\ pc = "classify"
    /\ exitCode' = ExitStatus(results)
    /\ pc' = "exited"
    /\ UNCHANGED <<mainVars, scriptVars, isolatedVars, runVars, loginSuccessIndicators, browserOpen, calls, results, raised, notified>>

\* except Exception: return 1
MainExcept ==
    /\ pc = "main_except"
    /\ exitCode' = 1
    /\ pc' = "exited"
    /\ UNCHANGED <<mainVars, scriptVars, isolatedVars, runVars, loginSuccessIndicators, browserOpen, calls, results, raised, notified>>

Next ==
    \/ CheckCredentials
    \/ Construct
    \/ RunNoMerchants
    \/ EnterBrowser
    \/ StartBrowser
    \/ SetUserAgent
    \/ GoToLogin
    \/ CookieConsent
    \/ EnterUsername
    \/ ClickContinue
    \/ EnterPassword
    \/ ClickLogin
    \/ CheckLoginStatus
    \/ SkipMerchant
    \/ NavigateMerchant
    \/ DebugScreenshot
    \/ RunActivationScript
    \/ StoreResults
    \/ RetrieveResults
    \/ RecordOutcome
    \/ Summary
    \/ EvidenceNavigate
    \/ EvidenceScreenshot
    \/ EvidencePageSource
    \/ EvidenceSave
    \/ Teardown
    \/ Notify
    \/ Classify
    \/ MainExcept

Spec == Init /\ [][Next]_vars

\* Every await of the flow either returns or raises, and the statements
\* between the awaits run to the next one: a step that can be taken is taken.
FairSpec == Spec /\ WF_vars(Next)

\* ------------------------------------- the activation attempt on its own
\* activate_coupons_for_partner's three scripts and its result processing,
\* run repeatedly against one coupon page of one merchant, with a channel
\* that hands the stored text over unchanged in either wire shape.
ScriptMerchant == MerchantPool[2]

InitScript ==
    /\ pc = "script"
    /\ username = "user"
    /\ password = "secret"
    /\ no_notify = FALSE
    /\ config = [merchants |-> <<ScriptMerchant>>]
    /\ is_github_actions = FALSE
    /\ debug_mode = FALSE
    /\ browserOpen = TRUE
    /\ calls = <<>>
    /\ idx = 1
    /\ windowResults = NoWindowValue
    /\ windowJSON = NoWindowText
    /\ loginSuccessIndicators = NoWindowValue
    /\ results_json = NotRetrieved
    /\ activation_results = <<>>
    /\ successful = <<>>
    /\ failed = <<>>
    /\ total_activated = 0
    /\ total_available = 0
    /\ results = NoResults
    /\ raised = FALSE
    /\ notified = FALSE
    /\ exitCode = -1
    /\ document \in ScriptPages
    /\ invocations = 0
    /\ cta = NoCta
    /\ button = 0
    /\ tried = <<>>
    /\ clicked = 0
    /\ username_script = NoScript
    /\ password_script = NoScript
    /\ inputValues = NoInputValues
    /\ options = NoOptions
    /\ results_file = NoResultsFile

scriptFrame ==
    <<mainVars, isolatedVars, loginSuccessIndicators, browserOpen, idx, successful, failed, total_activated,
      total_available, results, raised, notified, exitCode>>

\* the activation script runs against the page as it is now
ScriptInvoke ==
    /\ pc = "script"
    /\ invocations < MaxInvocations
    /\ windowResults' = ActivationScript(document)
    /\ document' \in PagesAfterScript(document)
    /\ invocations' = invocations + 1
    /\ calls' = Append(calls, Call("execute_script", "activate", idx)) \o PageClicks(document)
    /\ pc' = "script_store"
    /\ UNCHANGED <<scriptFrame, windowJSON, results_json, activation_results>>

ScriptStore ==
    /\ pc = "script_store"
    /\ windowJSON' = StoreResultsJSON(windowResults)
    /\ pc' = "script_retrieve"
    /\ UNCHANGED <<scriptFrame, scriptVars, calls, windowResults, results_json,
                   activation_results>>

ScriptRetrieve ==
    /\ pc = "script_retrieve"
    /\ results_json' \in {BareValue(windowJSON), EnvelopeValue(windowJSON)}
    /\ pc' = "script_process"
    /\ UNCHANGED <<scriptFrame, scriptVars, calls, windowResults, windowJSON,
                   activation_results>>

ScriptRecord ==
    /\ pc = "script_process"
    /\ activation_results' =
            Append(activation_results,
                   ProcessResults(merchant_name(ScriptMerchant),
                                  partner_id(ScriptMerchant), results_json))
    /\ results_json' = NotRetrieved
    /\ pc' = "script"
    /\ UNCHANGED <<scriptFrame, scriptVars, calls, windowResults, windowJSON>>

NextScript ==
    \/ ScriptInvoke
    \/ ScriptStore
    \/ ScriptRetrieve
    \/ ScriptRecord

SpecScript == InitScript /\ [][NextScript]_vars

\* the state of main() and run() while a piece of them is looked at alone
MainAtRest ==
    /\ no_notify = FALSE
    /\ config = NoConfig
    /\ is_github_actions = FALSE
    /\ debug_mode = FALSE
    /\ browserOpen = FALSE
    /\ calls = <<>>
    /\ idx = 1
    /\ windowResults = NoWindowValue
    /\ windowJSON = NoWindowText
    /\ loginSuccessIndicators = NoWindowValue
    /\ results_json = NotRetrieved
    /\ activation_results = <<>>
    /\ successful = <<>>
    /\ failed = <<>>
    /\ total_activated = 0
    /\ total_available = 0
    /\ results = NoResults
    /\ raised = FALSE
    /\ notified = FALSE
    /\ exitCode = -1
    /\ document = NoDocument
    /\ invocations = 0

restFrame ==
    <<mainVars, scriptVars, runVars, loginSuccessIndicators, browserOpen, calls,
      results, raised, notified, exitCode, notifierVars>>

\* ------------------------------------- resolving a coupon's activation button
\* The four structural selectors of buttonSelectors, and the text scan, as
\* lookups 1 to 4 and 5.  A call-to-action element is described by what each
\* lookup gives on it: a button (1..MaxButtons) or nothing (0).
StructuralSelectors == 4
TextScanLookup == StructuralSelectors + 1

Ctas ==
    {[structural |-> st, text |-> tx] :
        st \in [1..StructuralSelectors -> 0..MaxButtons], tx \in 0..MaxButtons}

InitButton ==
    /\ pc = "b_selectors"
    /\ username = "user"
    /\ password = "secret"
    /\ MainAtRest
    /\ cta \in Ctas
    /\ button = 0
    /\ tried = <<>>
    /\ clicked = 0
    /\ username_script = NoScript
    /\ password_script = NoScript
    /\ inputValues = NoInputValues
    /\ options = NoOptions
    /\ results_file = NoResultsFile

TrySelector_KeepsLast ==
    /\ pc = "b_selectors"
    /\ Len(tried) < StructuralSelectors
    /\ LET found == cta.structural[Len(tried) + 1]
       IN button' = IF found # 0 THEN found ELSE button
    /\ tried' = Append(tried, Len(tried) + 1)
    /\ UNCHANGED <<pc, cta, clicked, restFrame, loginScriptVars>>

\* for (j = 0; j < buttonSelectors.length && !button; j++) querySelector
TrySelector ==
    /\ pc = "b_selectors"
    /\ Len(tried) < StructuralSelectors
    /\ button = 0
    /\ button' = cta.structural[Len(tried) + 1]
    /\ tried' = Append(tried, Len(tried) + 1)
    /\ UNCHANGED <<pc, cta, clicked, restFrame, loginScriptVars>>

\* if (!button): the scan of all buttons for the text "aktivieren"
TextScan ==
    /\ pc = "b_selectors"
    /\ Len(tried) = StructuralSelectors
    /\ button = 0
    /\ button' = cta.text
    /\ tried' = Append(tried, TextScanLookup)
    /\ pc' = "b_click"
    /\ UNCHANGED <<cta, clicked, restFrame, loginScriptVars>>

\* if (button) { button.click(); activatedCount++ }
ClickButton ==
    /\ pc \in {"b_selectors", "b_click"}
    /\ button # 0
    /\ clicked' = button
    /\ pc' = "b_done"
    /\ UNCHANGED <<cta, button, tried, restFrame, loginScriptVars>>

\* else: the look for an activated button, for the log only
NoButton ==
    /\ pc = "b_click"
    /\ button = 0
    /\ pc' = "b_done"
    /\ UNCHANGED <<cta, button, tried, clicked, restFrame, loginScriptVars>>

NextButton ==
    \/ TrySelector
    \/ TextScan
    \/ ClickButton
    \/ NoButton

SpecButton == InitButton /\ [][NextButton]_vars

\* ------------------------------------- the scripts that carry a credential
\* A script text is a sequence of characters and tokens.  The credential is
\* put between two single quotes with the + operator of Python, unchanged.
Quote == "'"
Backslash == "\\"
LineBreak == "\n"
CredentialChars == {"a", Quote, Backslash, LineBreak}

\* the non-empty credentials main() lets through
Credentials == SeqsUpTo(CredentialChars, MaxCredentialLen) \ {<<>>}

\* the text before the opening quote and after the closing quote
UsernameHead == <<"inputElement.focus()", "inputElement.click()", "inputElement.value", "=">>
UsernameTail == <<";", "inputElement.dispatchEvent(inputEvent)",
                  "inputElement.dispatchEvent(changeEvent)">>
PasswordHead == <<"passwordInput.focus()", "passwordInput.click()", "passwordInput.value", "=">>
PasswordTail == <<";", "passwordInput.dispatchEvent(inputEvent)",
                  "passwordInput.dispatchEvent(changeEvent)">>

Embed(head, credential, tail) == head \o <<Quote>> \o credential \o <<Quote>> \o tail

\* How the page reads a single-quoted string literal that opens just before
\* position i: an unescaped quote closes it, a backslash takes the next
\* character with it (before a line break: a line continuation, which adds
\* nothing), and a bare line break or the end of the text inside the literal
\* is a syntax error of the whole script.
RECURSIVE ReadLiteral(_, _, _)
ReadLiteral(text, i, value) ==
    IF i > Len(text) THEN [ok |-> FALSE]
    ELSE IF text[i] = Quote
        THEN [ok |-> TRUE, value |-> value, rest |-> SubSeq(text, i + 1, Len(text))]
    ELSE IF text[i] = LineBreak THEN [ok |-> FALSE]
    ELSE IF text[i] = Backslash
        THEN IF i + 1 > Len(text) THEN [ok |-> FALSE]
             ELSE IF text[i + 1] = LineBreak THEN ReadLiteral(text, i + 2, value)
             ELSE ReadLiteral(text, i + 2, Append(value, text[i + 1]))
    ELSE ReadLiteral(text, i + 1, Append(value, text[i]))

\* the literal assigned to .value and the script text that follows it
Assigned(script, head) == ReadLiteral(script, Len(head) + 2, <<>>)

InitLoginScript ==
    /\ pc = "ls_username"
    /\ username \in Credentials
    /\ password \in Credentials
    /\ MainAtRest
    /\ cta = NoCta
    /\ button = 0
    /\ tried = <<>>
    /\ clicked = 0
    /\ username_script = NoScript
    /\ password_script = NoScript
    /\ inputValues = NoInputValues
    /\ options = NoOptions
    /\ results_file = NoResultsFile

\* username_script = """...""" + self.username + """..."""
BuildUsernameScript ==
    /\ pc = "ls_username"
    /\ username_script' = Embed(UsernameHead, username, UsernameTail)
    /\ pc' = "ls_username_execute"
    /\ UNCHANGED <<restFrame, buttonVars, password_script, inputValues>>

\* await page.execute_script(username_script)
ExecuteUsernameScript ==
    /\ pc = "ls_username_execute"
    /\ inputValues' = [username |-> Assigned(username_script, UsernameHead)]
    /\ pc' = "ls_password"
    /\ UNCHANGED <<restFrame, buttonVars, username_script, password_script>>

\* password_script = """...""" + self.password + """..."""
BuildPasswordScript ==
    /\ pc = "ls_password"
    /\ password_script' = Embed(PasswordHead, password, PasswordTail)
    /\ pc' = "ls_password_execute"
    /\ UNCHANGED <<restFrame, buttonVars, username_script, inputValues>>

\* await page.execute_script(password_script)
ExecutePasswordScript ==
    /\ pc = "ls_password_execute"
    /\ inputValues' = [username |-> inputValues.username,
                       password |-> Assigned(password_script, PasswordHead)]
    /\ pc' = "ls_done"
    /\ UNCHANGED <<restFrame, buttonVars, username_script, password_script>>

NextLoginScript ==
    \/ BuildUsernameScript
    \/ ExecuteUsernameScript
    \/ BuildPasswordScript
    \/ ExecutePasswordScript

SpecLoginScript == InitLoginScript /\ [][NextLoginScript]_vars

\* ------------------------------------------------- the Notifier on its own
\* main() from the return of run() on: the Notifier (unless --no-notify) and
\* the exit code, for the aggregates run() returns.
NotifySuccess ==
    [partner_name |-> "REWE", partner_id |-> "rewe", activated |-> 1, total |-> 1,
     success |-> TRUE, alreadyActivated |-> FALSE]
NotifyFailure ==
    [partner_name |-> "dm", partner_id |-> "dm", error |-> ErrCouponCenter,
     success |-> FALSE]

Aggregates ==
    {[successful |-> <<>>, failed |-> <<>>, error |-> ErrNoMerchants],
     [successful |-> <<>>, failed |-> <<>>, error |-> LoginFailedPrefix \o TransportError]}
    \cup {[successful |-> s, failed |-> f,
           total_activated |-> Len(s), total_available |-> Len(s),
           screenshot_path |-> "payback_coupons.png",
           html_path |-> "payback_coupons.html",
           html_written |-> TRUE] :
            s \in SeqsUpTo({NotifySuccess}, MaxNotifyOutcomes),
            f \in SeqsUpTo({NotifyFailure}, MaxNotifyOutcomes)}

InitNotify ==
    /\ pc = "n_main"
    /\ username = "user"
    /\ password = "secret"
    /\ no_notify \in BOOLEAN
    /\ config = NoConfig
    /\ is_github_actions = FALSE
    /\ debug_mode = FALSE
    /\ browserOpen = FALSE
    /\ calls = <<>>
    /\ idx = 1
    /\ windowResults = NoWindowValue
    /\ windowJSON = NoWindowText
    /\ loginSuccessIndicators = NoWindowValue
    /\ results_json = NotRetrieved
    /\ activation_results = <<>>
    /\ successful = <<>>
    /\ failed = <<>>
    /\ total_activated = 0
    /\ total_available = 0
    /\ results \in Aggregates
    /\ raised = FALSE
    /\ notified = FALSE
    /\ exitCode = -1
    /\ document = NoDocument
    /\ invocations = 0
    /\ cta = NoCta
    /\ button = 0
    /\ tried = <<>>
    /\ clicked = 0
    /\ username_script = NoScript
    /\ password_script = NoScript
    /\ inputValues = NoInputValues
    /\ options = NoOptions
    /\ results_file = NoResultsFile

notifyFrame ==
    <<mainVars, scriptVars, runVars, loginSuccessIndicators, browserOpen, calls,
      results, raised, buttonVars, loginScriptVars>>

\* if not args.no_notify: notifier = Notifier(args.config)
NotifierInit ==
    /\ pc = "n_main"
    /\ ~no_notify
    /\ options' \in OptionSets
    /\ pc' = "n_should_notify"
    /\ UNCHANGED <<notifyFrame, results_file, notified, exitCode>>

\* --no-notify: main() goes straight to the exit code
NotifierSkipped ==
    /\ pc = "n_main"
    /\ no_notify
    /\ pc' = "n_classify"
    /\ UNCHANGED <<notifyFrame, notifierVars, notified, exitCode>>

\* notify(): if not self._should_notify(results): return False
NotifyDecide ==
    /\ pc = "n_should_notify"
    /\ IF ShouldNotify(results, options)
       THEN /\ pc' = "n_save_results"
            /\ UNCHANGED notified
       ELSE /\ notified' = FALSE
            /\ pc' = "n_classify"
    /\ UNCHANGED <<notifyFrame, notifierVars, exitCode>>

\* the message is logged, _save_results writes the file (a failure of the
\* write is caught and logged), and notify() returns True
NotifySave ==
    /\ pc = "n_save_results"
    /\ results_file' \in {[written |-> TRUE, content |-> results], NoResultsFile}
    /\ notified' = TRUE
    /\ pc' = "n_classify"
    /\ UNCHANGED <<notifyFrame, options, exitCode>>

\* main(): the exit code from the aggregate
NotifyClassify ==
    /\ pc = "n_classify"
    /\ exitCode' = ExitStatus(results)
    /\ pc' = "n_exited"
    /\ UNCHANGED <<notifyFrame, notifierVars, notified>>

NextNotify ==
    \/ NotifierInit
    \/ NotifierSkipped
    \/ NotifyDecide
    \/ NotifySave
    \/ NotifyClassify

SpecNotify == InitNotify /\ [][NextNotify]_vars

\* ======================================================================
\* Properties
\* ======================================================================
Range(q) == {q[i] : i \in 1..Len(q)}
LastCall == calls[Len(calls)]

\* a merchant of the configuration that carries a non-empty partner_id
HasPartnerId(m) == "partner_id" \in DOMAIN m /\ m.partner_id # ""

\* the browser calls issued for merchant i
CallsOf(i) == {c \in Range(calls) : c.merchant = i}
Navigated(i) == \E c \in CallsOf(i) : c.op = "go_to"

\* merchant i has gone through its loop iteration: rejected for its missing
\* partner_id, or navigated to
Attempted(i) ==
    IF HasPartnerId(merchants[i]) THEN Navigated(i)
    ELSE \E o \in Range(failed) :
            /\ o.partner_name = merchant_name(merchants[i])
            /\ o.error = ErrNoPartnerId

\* the activation attempt of merchant i ended in a failed outcome
FailedOutcomeOf(i) ==
    \E o \in Range(failed) :
        /\ "partner_id" \in DOMAIN o
        /\ HasPartnerId(merchants[i])
        /\ o.partner_id = merchants[i].partner_id

\* an exception left run() while merchant i was being processed
RaisedAt(i) == raised /\ Len(calls) > 0 /\ LastCall.merchant = i

LoopPcs == {"loop", "m_debug", "m_activate", "m_store", "m_retrieve", "m_process"}

\* C1: a failed outcome never ends the batch.  Once merchant i's activation
\* attempt has given a failed outcome, every later merchant j is attempted,
\* or the loop is still on its way to j, or an exception raised while a
\* merchant between them was being processed has ended the run.
C1_FailedOutcomeKeepsBatchGoing ==
    \A i, j \in 1..Len(merchants) :
        (i < j /\ FailedOutcomeOf(i)) =>
            \/ Attempted(j)
            \/ pc \in LoopPcs /\ ~raised /\ idx <= j
            \/ \E m \in (i + 1)..(j - 1) : RaisedAt(m)

C1_Witness ==
    /\ Len(merchants) = 2
    /\ FailedOutcomeOf(1)
    /\ Navigated(2)
    /\ Len(successful) = 1

\* the login sequence, as the page calls it consists of
LoginCalls ==
    <<Call("go_to", "login", 0), Call("find_element", "cookie", 0),
      Call("execute_script", "username", 0), Call("execute_script", "continue", 0),
      Call("execute_script", "password", 0), Call("execute_script", "submit", 0),
      Call("execute_script", "probe", 0)>>

IsLoginCall(c) == c \in Range(LoginCalls)
IsCouponNavigation(c) == c.op = "go_to" /\ c.arg # "login"

\* C2: no navigation to a coupon listing before the whole login sequence
\* (login page, consent, identifier, continue, password, login click, probe)
\* has been executed, in that order.
C2_LoginBeforeCouponNavigation ==
    \A k \in 1..Len(calls) :
        IsCouponNavigation(calls[k]) =>
            SelectSeq(SubSeq(calls, 1, k - 1), IsLoginCall) = LoginCalls

C2_Witness ==
    \E k \in 1..Len(calls) : IsCouponNavigation(calls[k]) /\ calls[k].merchant = 2

\* ---------------------------------------------------- authentication failure
NoMerchantActivity ==
    /\ \A c \in Range(calls) : c.merchant = 0 /\ ~IsCouponNavigation(c)
    /\ activation_results = <<>>
    /\ successful = <<>>
    /\ failed = <<>>

\* the call issued last did not return: run() is being left by its exception,
\* or (the probe) by the early return that follows its except branch
AfterRunPcs == {"teardown", "notify", "classify", "main_except", "exited"}
FailedCall(arg) ==
    /\ Len(calls) > 0
    /\ LastCall.arg = arg
    /\ LastCall.merchant = 0
    /\ pc \in AfterRunPcs

ConsentFailed ==
    /\ Len(calls) > 0
    /\ LastCall = Call("find_element", "cookie", 0)

LoginFailureAggregate(res) ==
    /\ DOMAIN res = {"successful", "failed", "error"}
    /\ res.successful = <<>>
    /\ res.failed = <<>>
    /\ res.error = LoginFailedPrefix \o TransportError

AuthSteps3To5 == {"username", "continue", "password", "submit"}

\* C3, as the claim states it: a failure at any authentication step 2 to 6 is
\* caught by run(), which returns the empty aggregate with the login-failure
\* error, and no merchant is attempted.
C3_Original ==
    /\ (ConsentFailed \/ \E a \in AuthSteps3To5 \cup {"probe"} : FailedCall(a)) =>
            NoMerchantActivity
    /\ (pc = "exited" /\ \E a \in AuthSteps3To5 \cup {"probe"} : FailedCall(a)) =>
            ~raised /\ LoginFailureAggregate(results)

\* C3, amended: only a failure of the login-status probe (step 6) is caught
\* and answered with the empty aggregate carrying "Login failed: ..."; a
\* failure of identifier entry, continue click, password entry or login click
\* (steps 3 to 5) propagates out of run() as an exception and no aggregate is
\* returned; in both cases no merchant is attempted.  A failure of consent
\* handling (step 2) is tolerated: the flow is at identifier entry next.
C3_ProbeFailureCaughtOthersPropagate ==
    /\ FailedCall("probe") =>
            ~raised /\ LoginFailureAggregate(results) /\ NoMerchantActivity
    /\ (\E a \in AuthSteps3To5 : FailedCall(a)) =>
            raised /\ results = NoResults /\ NoMerchantActivity
    /\ ConsentFailed => pc = "username" /\ ~raised /\ results = NoResults

C3_Witness ==
    /\ pc = "exited"
    /\ FailedCall("probe")
    /\ LoginFailureAggregate(results)

C5_EscapedErrorAbortsRun ==
    [][raised =>
        /\ raised'
        /\ pc' \in {"teardown", "main_except", "exited"}
        /\ calls' = calls
        /\ UNCHANGED runVars
        /\ results' = results
        /\ results = NoResults
        /\ notified' = notified
        /\ (pc' = "exited" => exitCode' = 1)]_vars

C5_Witness ==
    /\ pc = "exited"
    /\ raised
    /\ exitCode = 1
    /\ Len(successful) = 1
    /\ LastCall.op = "get_screenshot"

\* ------------------------------------------------ errors within a merchant
\* the retrieval call for merchant i has returned
Retrieved(i) ==
    /\ HasPartnerId(merchants[i])
    /\ idx > i \/ (idx = i /\ results_json # NotRetrieved)

OutcomesOf(i) ==
    {k \in 1..Len(successful \o failed) :
        /\ HasPartnerId(merchants[i])
        /\ "partner_id" \in DOMAIN (successful \o failed)[k]
        /\ (successful \o failed)[k].partner_id = merchants[i].partner_id}

\* C6, as the claim states it: no error arising while a merchant is being
\* processed propagates; each becomes that merchant's failed outcome.
C6_Original ==
    \A i \in 1..Len(merchants) : ~RaisedAt(i)

\* C6, amended: an error in decoding or reading the retrieved result value
\* (malformed JSON, a value that is no result object, a missing value) becomes
\* that merchant's failed outcome and the loop goes on: whenever the retrieval
\* call has returned, whatever it returned, the merchant has exactly one
\* outcome and the loop is past it.  An exception raised by one of the
\* merchant's browser calls (navigation, debug screenshot, activation script,
\* store, retrieval) is not caught: it leaves run() without an outcome for
\* that merchant and without an aggregate.
C6_DataErrorsBecomeOutcomes ==
    \A i \in 1..Len(merchants) :
        /\ Retrieved(i) =>
            /\ ~RaisedAt(i)
            /\ pc = "m_process" \/ idx > i
            /\ idx > i => Cardinality(OutcomesOf(i)) = 1
        /\ RaisedAt(i) =>
            /\ OutcomesOf(i) = {}
            /\ idx = i
            /\ results = NoResults

C6_Witness ==
    /\ Len(merchants) = 2
    /\ \E o \in Range(failed) : o.error = ErrJSONObject /\ o.partner_name = "REWE"
    /\ \E o \in Range(successful) : o.partner_name = "dm"
    /\ pc = "exited"
    /\ ~raised

\* ------------------------------------------------------------ the aggregate
\* run() returned the aggregate that follows the merchant loop
ReturnedAfterLoop == "total_activated" \in DOMAIN results

RECURSIVE SumOf(_, _)
SumOf(outcomes, field) ==
    IF Len(outcomes) = 0 THEN 0
    ELSE outcomes[1][field] + SumOf(Tail(outcomes), field)

\* C7: in the aggregate returned after the merchant loop, total_activated is
\* the sum of the activated counts of the outcomes in successful and
\* total_available the sum of their total counts; failed outcomes carry no
\* count and add to neither.
C7_TotalsAreSumsOverSuccessful ==
    ReturnedAfterLoop =>
        /\ results.total_activated = SumOf(results.successful, "activated")
        /\ results.total_available = SumOf(results.successful, "total")
        /\ \A o \in Range(results.failed) : DOMAIN o \cap {"activated", "total"} = {}

C7_Witness ==
    /\ ReturnedAfterLoop
    /\ Len(results.successful) = 2
    /\ results.total_activated = 1
    /\ results.total_available = 2

\* the outcomes produced so far: the skip records and the returned results
CountIn(q, o) == Cardinality({k \in 1..Len(q) : q[k] = o})

SkipRecord(m) ==
    [partner_name |-> IF "name" \in DOMAIN m THEN m.name ELSE "Unknown",
     error |-> ErrNoPartnerId, success |-> FALSE]

\* C8: at every point of the merchant loop and in the returned aggregate,
\* each outcome produced so far (a result of activate_coupons_for_partner, or
\* the record of a merchant without partner_id) is in exactly one of
\* successful and failed, exactly once, and in successful exactly when its
\* success flag is true; the lists hold nothing else.
C8_OutcomesPartitioned ==
    /\ \A o \in Range(successful) : o.success
    /\ \A o \in Range(failed) : ~o.success
    /\ \A o \in Range(activation_results) :
        CountIn(successful, o) + CountIn(failed, o) = 1
    /\ \A i \in 1..Len(merchants) :
        (i < idx /\ ~HasPartnerId(merchants[i])) =>
            CountIn(successful, SkipRecord(merchants[i]))
                + CountIn(failed, SkipRecord(merchants[i])) = 1
    /\ Len(successful) + Len(failed)
        = Len(activation_results)
          + Cardinality({i \in 1..Len(merchants) : i < idx /\ ~HasPartnerId(merchants[i])})
    /\ ReturnedAfterLoop =>
        results.successful = successful /\ results.failed = failed

C8_Witness ==
    /\ pc = "loop"
    /\ Len(successful) = 1
    /\ Len(failed) = 1
    /\ Len(activation_results) = 2

WithPartnerId == {i \in 1..Len(merchants) : HasPartnerId(merchants[i])}

\* C9, as the claim states it: in the aggregate returned after the loop,
\* len(successful) + len(failed) is the number of configured merchants that
\* have a partner_id.
C9_Original ==
    ReturnedAfterLoop =>
        Len(results.successful) + Len(results.failed) = Cardinality(WithPartnerId)

\* C9, amended: in the aggregate returned after the loop, len(successful) +
\* len(failed) is the number of configured merchants, those without a
\* partner_id included (each of them adds one record to failed); successful
\* holds at most as many outcomes as there are merchants with a partner_id.
C9_OneOutcomePerMerchant ==
    ReturnedAfterLoop =>
        /\ Len(results.successful) + Len(results.failed) = Len(merchants)
        /\ Len(results.successful) <= Cardinality(WithPartnerId)
        /\ Len(results.failed) >= Len(merchants) - Cardinality(WithPartnerId)

C9_Witness ==
    /\ ReturnedAfterLoop
    /\ Len(merchants) = 2
    /\ Cardinality(WithPartnerId) = 1
    /\ Len(results.successful) = 1
    /\ Len(results.failed) = 1

\* C10: a merchant without partner_id (missing or empty) gets the failed
\* record with error "No partner_id specified", no page call is ever issued
\* for it, and the step that rejects it leaves the loop at the next merchant.
C10_NoPartnerIdRejected ==
    /\ [](\A i \in 1..Len(merchants) :
            ~HasPartnerId(merchants[i]) =>
                /\ CallsOf(i) = {}
                /\ i < idx => CountIn(failed, SkipRecord(merchants[i])) = 1
                /\ i < idx => \A o \in Range(successful) : o.partner_name # merchants[i].name)
    /\ [][(pc = "loop" /\ idx <= Len(merchants) /\ ~HasPartnerId(merchants[idx])) =>
            /\ failed' = Append(failed, SkipRecord(merchants[idx]))
            /\ calls' = calls
            /\ pc' = "loop"
            /\ idx' = idx + 1
            /\ ~raised']_vars

C10_Witness ==
    /\ Len(merchants) = 2
    /\ ~HasPartnerId(merchants[1])
    /\ "partner_id" \notin DOMAIN merchants[1]
    /\ failed = <<SkipRecord(merchants[1])>>
    /\ Navigated(2)

\* ------------------------------------------------- the retrieved result value
\* a JSON text that is an object: "{", key and value tokens in turn, "}"
ObjectText(text) ==
    /\ Len(text) >= 2
    /\ text[1] = LBrace
    /\ text[Len(text)] = RBrace
    /\ Len(text) % 2 = 0
    /\ \A j \in 2..(Len(text) - 1) : text[j].t = (IF j % 2 = 0 THEN "key" ELSE "val")

\* the retrieved value hands over a text: the bare string, or the envelope
\* with a value under result.result
CarriesText(rj) ==
    \/ rj.kind = "str"
    \/ /\ rj.kind = "dict"
       /\ "result" \in DOMAIN rj.d
       /\ "result" \in DOMAIN rj.d.result
       /\ "value" \in DOMAIN rj.d.result.result

CarriedText(rj) == IF rj.kind = "str" THEN rj.s ELSE rj.d.result.result.value

\* a value was retrieved, and it is no JSON text of a result object: a text
\* that is not valid JSON, a JSON text of something else than an object, or
\* an object that is neither a text nor an envelope
Undecodable(rj) ==
    /\ rj # NotRetrieved
    /\ rj.kind # "none"
    /\ \/ CarriesText(rj) /\ Len(CarriedText(rj)) > 0 /\ ~ObjectText(CarriedText(rj))
       \/ rj.kind = "dict" /\ DOMAIN rj.d # {} /\ "result" \notin DOMAIN rj.d

ParseFailureTexts == {ErrJSONDecode, ErrJSONObject, ErrNotDict, ErrNotText}

CurrentName == merchant_name(merchants[idx])
CurrentId == partner_id(merchants[idx])

\* C11: when the value retrieved for a merchant is not valid JSON, or does
\* not decode to a result object, the step that processes it appends to
\* failed that merchant's outcome with success=false and the text of the
\* parse failure as its error, adds nothing to successful, raises nothing,
\* and leaves the loop at the next merchant.
C11_MalformedResultIsFailedOutcome ==
    [][(pc = "m_process" /\ Undecodable(results_json)) =>
        /\ \E e \in ParseFailureTexts :
                failed' = Append(failed, FailedOutcome(CurrentName, CurrentId, e))
        /\ successful' = successful
        /\ ~raised'
        /\ pc' = "loop"
        /\ idx' = idx + 1]_vars

C11_Witness ==
    /\ Len(merchants) = 2
    /\ \E o \in Range(failed) : o.error = ErrNotDict /\ o.partner_name = "REWE"
    /\ \E o \in Range(failed) : o.error = ErrJSONObject /\ o.partner_name = "dm"
    /\ pc = "exited"
    /\ ~raised

\* the retrieval returned no value: None, or the empty string
MissingValue(rj) ==
    \/ rj.kind = "none"
    \/ rj.kind = "str" /\ rj.s = <<>>

\* C12: when the retrieval for a merchant returns a missing value (None or
\* the empty string), the step that processes it appends to failed that
\* merchant's outcome with success=false and the error text "Failed to get
\* activation results", exactly; nothing is raised.
C12_MissingValueIsFailedOutcome ==
    [][(pc = "m_process" /\ MissingValue(results_json)) =>
        /\ failed' = Append(failed, [partner_name |-> CurrentName,
                                     partner_id |-> CurrentId,
                                     error |-> "Failed to get activation results",
                                     success |-> FALSE])
        /\ successful' = successful
        /\ ~raised']_vars

C12_Witness ==
    /\ Len(merchants) = 2
    /\ Len(failed) = 2
    /\ \A o \in Range(failed) : o.error = ErrNoResults
    /\ pc = "exited"
    /\ exitCode = 1

\* ------------------------------------------------------------ construction
ReadableConfigFiles == ConfigFiles \ {Unreadable}

\* C13, as the claim states it: constructing PaybackActivator never aborts.
\* The step ends with a configuration, the file's or (file missing or
\* unparsable) the default one with no merchants and activation_timeout 30,
\* and main() goes on to run().
C13_ConstructionNeverAborts ==
    [][pc = "construct" =>
        /\ ~raised'
        /\ pc' = "run"
        /\ \/ config' \in ReadableConfigFiles
           \/ config' = [merchants |-> <<>>, options |-> [activation_timeout |-> 30]]]_vars

\* ------------------------------------------------------ the browser session
MainPcs == {"main", "construct", "run", "notify", "classify", "main_except", "exited"}

\* C14: the browser session is open only inside run(): whenever control is
\* back in main(), by the normal return, by the early return after a failed
\* login probe, or by an exception raised during login, merchant processing
\* or evidence capture, the session has been torn down; a propagating
\* exception with the session still open is on its way to the teardown.
C14_BrowserClosedOnEveryExit ==
    /\ pc \in MainPcs => ~browserOpen
    /\ (raised /\ browserOpen) => pc = "teardown"
    /\ (LoginFailureAggregate(results) /\ browserOpen) => pc = "teardown"

C14_Witness ==
    /\ pc = "exited"
    /\ raised
    /\ ~browserOpen
    /\ Len(calls) > 0
    /\ LastCall = Call("execute_script", "store", 2)
    /\ Len(successful) = 1

\* --------------------------------------------------------- evidence capture
EvidenceCalls ==
    {Call("go_to", "", 0), Call("get_screenshot", "overview", 0),
     Call("page_source", "overview", 0)}

\* one of the three page calls of the evidence capture raised
EvidenceCallFailed == raised /\ Len(calls) > 0 /\ LastCall \in EvidenceCalls

\* the markup file could not be written
MarkupWriteFailed == ReturnedAfterLoop /\ ~results.html_written

\* the exit classification of a partition
ClassOf(succ, fail) == IF Len(fail) > 0 /\ Len(succ) = 0 THEN 1 ELSE 0

\* C15, as the claim states it: whichever evidence step fails (navigation to
\* the overview, screenshot, page source, writing the markup file), run()
\* returns the aggregate with the partition the loop produced and main()
\* exits with the classification of that partition.
C15_Original ==
    (pc = "exited" /\ (EvidenceCallFailed \/ MarkupWriteFailed)) =>
        /\ ReturnedAfterLoop
        /\ results.successful = successful
        /\ results.failed = failed
        /\ exitCode = ClassOf(successful, failed)

\* C15, amended: only the writing of the markup file is best-effort.  The
\* step that follows the reading of the page source always returns the
\* aggregate with the partition of the loop, file written or not, and after
\* a failed write main() exits with the classification of that partition.
\* A failure of the navigation to the overview, of the screenshot or of the
\* reading of the page source leaves run() as an exception: no aggregate is
\* returned, nothing is notified, and main() exits with 1.
C15_OnlyMarkupWriteIsBestEffort ==
    /\ [](MarkupWriteFailed =>
            /\ ~raised
            /\ results.successful = successful
            /\ results.failed = failed
            /\ pc = "exited" => exitCode = ClassOf(successful, failed))
    /\ [](EvidenceCallFailed =>
            /\ results = NoResults
            /\ ~notified
            /\ pc = "exited" => exitCode = 1)
    /\ [][pc = "ev_save" =>
            /\ ~raised'
            /\ pc' = "teardown"
            /\ results'.successful = successful
            /\ results'.failed = failed]_vars

C15_Witness ==
    /\ pc = "exited"
    /\ MarkupWriteFailed
    /\ Len(successful) = 1
    /\ Len(failed) = 1
    /\ exitCode = 0

\* ------------------------------------------------------- the two wire shapes
\* the same text in the other shape: bare for an envelope, envelope for bare
OtherShape(rj) ==
    IF rj.kind = "str"
    THEN [kind |-> "dict", d |-> [result |-> [result |-> [value |-> rj.s]]]]
    ELSE [kind |-> "str", s |-> CarriedText(rj)]

\* C16: whichever shape the retrieval hands a result JSON text over in, the
\* bare string or the envelope with the text under result.result.value, the
\* outcome recorded for the merchant is the outcome the other shape of the
\* same text gives: the text is taken out of the envelope before it is parsed.
C16_BothShapesSameOutcome ==
    [][(/\ pc = "m_process"
        /\ CarriesText(results_json)
        /\ Len(CarriedText(results_json)) > 0) =>
            activation_results' =
                Append(activation_results,
                       ProcessResults(CurrentName, CurrentId, OtherShape(results_json)))]_vars

C16_Witness ==
    /\ pc = "m_process"
    /\ idx = 2
    /\ results_json.kind = "dict"
    /\ CarriesText(results_json)
    /\ CarriedText(results_json) = windowJSON
    /\ windowResults # NoWindowValue
    /\ windowResults.success
    /\ windowResults.activated = 1
    /\ Len(activation_results) = 1

\* ------------------------------------------------------ shape of an outcome
\* every outcome the run holds: in the lists of the loop and in the aggregate
AllOutcomes ==
    Range(activation_results) \cup Range(successful) \cup Range(failed)
    \cup Range(Get(results, "successful", <<>>)) \cup Range(Get(results, "failed", <<>>))

\* C17: an outcome with success=true carries no error, and an outcome with
\* success=false carries no activated count (absent, or zero).  This holds
\* also for the outcome made from a page result that sets success=true
\* together with an error text (no coupon container on the page).
C17_SuccessExcludesError ==
    \A o \in AllOutcomes :
        /\ o.success => "error" \notin DOMAIN o
        /\ ~o.success => ("activated" \notin DOMAIN o \/ o.activated = 0)

C17_Witness ==
    /\ windowResults # NoWindowValue
    /\ windowResults.success
    /\ "error" \in DOMAIN windowResults
    /\ pc = "loop"
    /\ Len(successful) > 0
    /\ successful[Len(successful)].alreadyActivated
    /\ successful[Len(successful)].activated = 0

\* ------------------------------------------------ the script on one page
\* every coupon the page shows is already activated: the coupon container is
\* gone, or each coupon in it has only its activated button
AllActivated(page) ==
    /\ page # NoDocument
    /\ page.center
    /\ page.container =>
            /\ Len(page.coupons) > 0
            /\ \A i \in 1..Len(page.coupons) : page.coupons[i] = "activated"

LastOutcome == activation_results[Len(activation_results)]

\* the script has run at least twice and its latest run, which is on record,
\* clicked nothing and left a page on which every coupon is activated: that
\* run found the page in this state
RepeatedOnActivatedPage ==
    /\ pc = "script"
    /\ invocations >= 2
    /\ Len(activation_results) = invocations
    /\ AllActivated(document)
    /\ windowResults.activated = 0

\* C18, as the claim states it: a repeated invocation of the activation
\* script against a page on which every coupon is already activated gives
\* an outcome with success=true, activated 0 and alreadyActivated=true, and
\* no error.
C18_RepeatedInvocationAlreadyActivated ==
    RepeatedOnActivatedPage =>
        /\ LastOutcome.success
        /\ "error" \notin DOMAIN LastOutcome
        /\ LastOutcome.activated = 0
        /\ LastOutcome.alreadyActivated

\* C19, as the claim states it: on a page without the coupon-list root the
\* attempt gives a success outcome with zero activity, never a failed one.
C19_Original ==
    (pc = "script" /\ invocations >= 1 /\ ~document.center) =>
        /\ LastOutcome.success
        /\ LastOutcome.activated = 0
        /\ LastOutcome.total = 0

\* C19, amended: on a page without the coupon-list root (or without its
\* shadow root) the script clicks nothing and the merchant's outcome is a
\* failed outcome with the error "Coupon center not found" and no count.  It
\* is the absence of the coupon container under an existing root that counts
\* as zero coupons: a success outcome with activated 0, total 0 and
\* alreadyActivated=true.
C19_MissingRootIsFailedOutcome ==
    (pc = "script" /\ invocations >= 1) =>
        /\ ~document.center =>
                LastOutcome = [partner_name |-> merchant_name(ScriptMerchant),
                               partner_id |-> partner_id(ScriptMerchant),
                               error |-> "Coupon center not found",
                               success |-> FALSE]
        /\ (document.center /\ ~document.container) =>
                /\ LastOutcome.success
                /\ LastOutcome.activated = 0
                /\ LastOutcome.total = 0
                /\ LastOutcome.alreadyActivated

C19_Witness ==
    /\ pc = "script"
    /\ invocations = 1
    /\ ~document.center
    /\ ~LastOutcome.success
    /\ LastOutcome.error = ErrCouponCenter

\* ------------------------------------------------------------ credentials
CredentialsMissing == username = "" \/ password = ""

\* C20: when the username or the password is available neither from the
\* flag nor from the environment, main() is at its start or has exited with
\* code 1; no activator was constructed (no configuration was loaded), no
\* browser was started, no page call was issued, run() returned nothing and
\* no notification was sent.
C20_MissingCredentialsExitEarly ==
    CredentialsMissing =>
        /\ pc \in {"main", "exited"}
        /\ pc = "exited" => exitCode = 1
        /\ config = NoConfig
        /\ ~browserOpen
        /\ calls = <<>>
        /\ results = NoResults
        /\ ~notified
        /\ ~raised

C20_Witness ==
    /\ username # ""
    /\ password = ""
    /\ pc = "exited"
    /\ exitCode = 1
    /\ config = NoConfig

\* ------------------------------------------------------- the login flow
\* the pcs of the login flow in the order of the code; at LoginPcs[k] the
\* first k - 1 calls of LoginCalls have been issued
LoginPcs == <<"login", "consent", "username", "continue", "password", "submit", "probe">>

LoginIssued == SelectSeq(calls, IsLoginCall)

BeforeLoginPcs == {"main", "construct", "run", "start", "user_agent"}
AfterLoginPcs ==
    {"loop", "m_debug", "m_activate", "m_store", "m_retrieve", "m_process",
     "ev_navigate", "ev_screenshot", "ev_source", "ev_save"}

\* C21: the login flow goes through its steps in the one order login page,
\* consent, identifier, continue, password, login click, probe.  The login
\* calls issued so far are always an initial piece of that sequence (no step
\* is skipped, none is issued twice), a step is issued only when all steps
\* before it have been issued, and the merchant loop is reached only with
\* the whole sequence issued.
C21_LoginStepsInOrder ==
    LET issued == LoginIssued
    IN /\ Len(issued) <= Len(LoginCalls)
       /\ issued = SubSeq(LoginCalls, 1, Len(issued))
       /\ \A k \in 1..Len(LoginPcs) : pc = LoginPcs[k] => Len(issued) = k - 1
       /\ pc \in BeforeLoginPcs => issued = <<>>
       /\ pc \in AfterLoginPcs => issued = LoginCalls

C21_Witness ==
    /\ pc = "loop"
    /\ idx = 1
    /\ LoginIssued = LoginCalls
    /\ Call("click", "cookie", 0) \in Range(calls)
    /\ Len(calls) = Len(LoginCalls) + 3

\* ---------------------------------------------------------- cookie consent
CookieFind == Call("find_element", "cookie", 0)
CookieClick == Call("click", "cookie", 0)
UsernameScript == Call("execute_script", "username", 0)

\* C22: whether the cookie control was found and clicked or could not be
\* found or clicked, the flow is at identifier entry next: right after the
\* consent handling nothing is raised and nothing is returned, and the call
\* that follows the consent handling is the identifier script in both cases.
C22_ConsentFailureTolerated ==
    /\ (Len(calls) > 0 /\ LastCall \in {CookieFind, CookieClick}) =>
            /\ pc = "username"
            /\ ~raised
            /\ browserOpen
            /\ results = NoResults
    /\ \A k \in 1..(Len(calls) - 1) :
            /\ calls[k] = CookieFind => calls[k + 1] \in {CookieClick, UsernameScript}
            /\ calls[k] = CookieClick => calls[k + 1] = UsernameScript

C22_Witness ==
    /\ pc = "continue"
    /\ ~raised
    /\ Len(calls) >= 2
    /\ calls[Len(calls) - 1] = CookieFind
    /\ LastCall = UsernameScript

\* ------------------------------------------------------- the login probe
\* C23: whatever the probe script finds (user menu or not, coupon cards or
\* none), when it has executed without raising, run() is at the merchant
\* loop next, with nothing raised and nothing returned.
C23_ProbeResultIgnored ==
    [][(pc = "probe" /\ loginSuccessIndicators' # NoWindowValue) =>
        /\ loginSuccessIndicators' \in LoginIndicators
        /\ pc' = "loop"
        /\ idx' = 1
        /\ ~raised'
        /\ results' = NoResults]_vars

C23_Witness ==
    /\ pc = "loop"
    /\ idx = 2
    /\ loginSuccessIndicators = [userMenuFound |-> FALSE, couponCount |-> 0]
    /\ Len(failed) = 1
    /\ ~raised

\* ------------------------------------------------- order of the merchants
\* the place in the configuration of the merchant an outcome belongs to (the
\* merchants of a configuration have different names)
PosOf(o) == CHOOSE i \in 1..Len(merchants) : merchant_name(merchants[i]) = o.partner_name

InConfigOrder(q) ==
    \A a, b \in 1..Len(q) : a < b => PosOf(q[a]) < PosOf(q[b])

\* merchant i has its outcome on record
Recorded(i) ==
    IF HasPartnerId(merchants[i]) THEN Cardinality(OutcomesOf(i)) = 1
    ELSE CountIn(failed, SkipRecord(merchants[i])) = 1

\* C24: merchants are processed one at a time in configuration order.  The
\* page calls issued for merchants never go back to an earlier merchant, the
\* navigation for a merchant is issued only when every merchant before it
\* has its outcome on record, and the outcomes in successful and in failed
\* (in the loop and in the returned aggregate) are in configuration order.
C24_MerchantsInConfigOrder ==
    /\ LET forMerchants == SelectSeq(calls, LAMBDA c : c.merchant > 0)
       IN \A k \in 1..(Len(forMerchants) - 1) :
               forMerchants[k].merchant <= forMerchants[k + 1].merchant
    /\ \A j \in 1..Len(merchants) :
            Navigated(j) => \A i \in 1..(j - 1) : Recorded(i)
    /\ InConfigOrder(successful)
    /\ InConfigOrder(failed)
    /\ ReturnedAfterLoop =>
            InConfigOrder(results.successful) /\ InConfigOrder(results.failed)

C24_Witness ==
    /\ pc = "loop"
    /\ Len(successful) = 2
    /\ successful[1].partner_name = "REWE"
    /\ successful[2].partner_name = "dm"
    /\ idx = 3

\* ------------------------------------------------- the steps of a merchant
\* the steps the claim names, as the page calls issued for merchant i
ClaimedSteps(i) ==
    <<Call("go_to", merchants[i].partner_id, i),
      Call("execute_script", "activate", i),
      Call("execute_script", "retrieve", i)>>

IssuedSteps(i) ==
    SelectSeq(calls, LAMBDA c : c.merchant = i /\ c \in Range(ClaimedSteps(i)))

\* C25: for each merchant with a partner_id the navigation to its coupon
\* URL, the activation script and the retrieval are issued at most once each
\* and in this order (the retrieval never before the activation script), and
\* a merchant whose outcome came from a retrieved value has had all three.
C25_MerchantStepsInOrder ==
    \A i \in 1..Len(merchants) :
        HasPartnerId(merchants[i]) =>
            LET issued == IssuedSteps(i)
            IN /\ Len(issued) <= 3
               /\ issued = SubSeq(ClaimedSteps(i), 1, Len(issued))
               /\ (idx > i \/ (idx = i /\ results_json # NotRetrieved)) =>
                       issued = ClaimedSteps(i)
               /\ idx < i => issued = <<>>

C25_Witness ==
    /\ Len(merchants) = 2
    /\ HasPartnerId(merchants[1])
    /\ HasPartnerId(merchants[2])
    /\ IssuedSteps(1) = ClaimedSteps(1)
    /\ IssuedSteps(2) = ClaimedSteps(2)
    /\ Call("screenshot", "debug", 2) \in Range(calls)
    /\ pc = "loop"

\* ------------------------------------------------- resolving the button
\* the structural selectors that resolve on the call-to-action
Resolving == {j \in 1..4 : cta.structural[j] # 0}
FirstResolving == CHOOSE j \in Resolving : \A k \in Resolving : j <= k

\* C26: the structural selectors are tried in their listed order, one after
\* the other, and none after the first that resolves; the text scan is made
\* only when all four have failed.  At the end the button of the first
\* resolving structural selector has the click, else the button the text
\* scan found, else no button.
C26_SelectorsInListedOrder ==
    /\ tried = SubSeq(<<1, 2, 3, 4, 5>>, 1, Len(tried))
    /\ 5 \in Range(tried) => Resolving = {}
    /\ Resolving # {} => Len(tried) <= FirstResolving
    /\ clicked # 0 => pc = "b_done"
    /\ pc = "b_done" =>
            IF Resolving # {}
            THEN /\ clicked = cta.structural[FirstResolving]
                 /\ Len(tried) = FirstResolving
            ELSE /\ clicked = cta.text
                 /\ Len(tried) = 5

C26_Witness ==
    /\ pc = "b_done"
    /\ cta.structural = [j \in 1..4 |-> IF j = 3 THEN 2 ELSE IF j = 4 THEN 1 ELSE 0]
    /\ cta.text = 1
    /\ clicked = 2
    /\ tried = <<1, 2, 3>>

\* --------------------------------------------------- clicks and the count
ScriptStart == Call("execute_script", "activate", 1)

\* the clicks of the latest run of the script
LastStart == CHOOSE k \in 1..Len(calls) :
                /\ calls[k] = ScriptStart
                /\ \A m \in (k + 1)..Len(calls) : calls[m] # ScriptStart
LastClicks == SubSeq(calls, LastStart + 1, Len(calls))

\* C27: in one run of the script the clicks go to different coupons, in the
\* order of the page; the activated count the script reports is the number
\* of clicks it made and the total is the number of coupons, so 0 <=
\* activated <= total in the result and in every success outcome; and every
\* coupon whose button resolves has its click, whatever happened to the
\* coupons before it (a coupon that threw included).
C27_CountIsNumberOfClicks ==
    invocations >= 1 =>
        /\ \A a, b \in 1..Len(LastClicks) :
                a < b => LastClicks[a].coupon < LastClicks[b].coupon
        /\ \A a \in 1..Len(LastClicks) :
                LastClicks[a].coupon \in 1..Len(document.coupons)
        /\ windowResults.activated = Len(LastClicks)
        /\ (document.center /\ document.container) =>
                windowResults.total = Len(document.coupons)
        /\ 0 <= windowResults.activated /\ windowResults.activated <= windowResults.total
        /\ \A o \in Range(activation_results) :
                o.success => (0 <= o.activated /\ o.activated <= o.total)
        /\ \A j \in 1..Len(document.coupons) :
                document.coupons[j] \in {"structural", "text"} =>
                    \E a \in 1..Len(LastClicks) : LastClicks[a].coupon = j

C27_Witness ==
    /\ pc = "script"
    /\ invocations = 1
    /\ document.coupons = <<"throws", "activated">>
    /\ LastClicks = <<ClickCall(2)>>
    /\ LastOutcome.activated = 1
    /\ LastOutcome.total = 2

\* --------------------------------------------- credentials as literals
\* the page reads the literal back as the credential and the text after
\* the literal is the text the program wrote there
ReadsBack(read, credential, tail) ==
    /\ read.ok
    /\ read.value = credential
    /\ read.rest = tail

\* C28: for every username and password the page evaluates the literal in
\* the login script to exactly the credential, and the script after the
\* literal is unchanged.
C28_CredentialEmbeddedAsLiteral ==
    /\ "username" \in DOMAIN inputValues =>
            ReadsBack(inputValues.username, username, UsernameTail)
    /\ "password" \in DOMAIN inputValues =>
            ReadsBack(inputValues.password, password, PasswordTail)

\* ------------------------------------------- exits that carry an error text
\* the branch of main() that logs "All coupon activations successful"
AllSuccessfulBranch(res) == Len(res.failed) = 0

NoMerchantsLoaded == config # NoConfig /\ Len(merchants) = 0

NoMerchantsAggregate ==
    [successful |-> <<>>, failed |-> <<>>, error |-> ErrNoMerchants]

LacksValuePath(rj) ==
    /\ rj # NotRetrieved
    /\ rj.kind = "dict"
    /\ "result" \in DOMAIN rj.d
    /\ ~CarriesText(rj)

\* the value hands over the JSON text of an object
CarriesObject(rj) ==
    /\ rj # NotRetrieved
    /\ rj.kind # "none"
    /\ CarriesText(rj)
    /\ ObjectText(CarriedText(rj))

DecodedObject(rj) == JSONLoads(CarriedText(rj)).value

NoTruthySuccess(rj) ==
    /\ CarriesObject(rj)
    /\ ("success" \notin DOMAIN DecodedObject(rj) \/ DecodedObject(rj).success = FALSE)

\* the error text the claim expects in the outcome
ExpectedError(rj) ==
    IF CarriesObject(rj) /\ "error" \in DOMAIN DecodedObject(rj)
    THEN DecodedObject(rj).error
    ELSE ErrUnknown

\* C31: when the retrieved value is an envelope without the nested value
\* path, or its result object has no truthy success field, the step that
\* processes it appends to failed the merchant's outcome with success=false
\* and the error text of the result object ("Unknown error" when there is
\* none), adds nothing to successful and raises nothing.
C31_NoSuccessFlagIsFailedOutcome ==
    [][(pc = "m_process" /\ (LacksValuePath(results_json) \/ NoTruthySuccess(results_json))) =>
        /\ failed' = Append(failed, [partner_name |-> CurrentName,
                                     partner_id |-> CurrentId,
                                     error |-> ExpectedError(results_json),
                                     success |-> FALSE])
        /\ successful' = successful
        /\ activation_results' = Append(activation_results, failed'[Len(failed')])
        /\ ~raised']_vars

C31_Witness ==
    /\ Len(merchants) = 2
    /\ Len(failed) = 2
    /\ failed[1].error = ErrUnknown
    /\ failed[2].error = ErrCouponCenter
    /\ successful = <<>>
    /\ pc = "exited"

\* ------------------------------------------------------------ termination
\* C32: when every browser call returns or raises, the run comes to its end
\* (main() exits) for every merchant list.  The loop index only moves to the
\* next merchant, one at a time and never past the end of the list, the
\* loop is left by its end only with every merchant gone through, and no
\* page call is issued a second time.
C32_RunTerminates ==
    /\ <>(pc = "exited")
    /\ [](/\ idx \in 1..(Len(merchants) + 1)
          /\ Cardinality(Range(calls)) = Len(calls)
          /\ ReturnedAfterLoop => idx = Len(merchants) + 1)
    /\ [][idx' # idx => (idx' = idx + 1 /\ pc \in {"loop", "m_process"})]_vars

C32_Witness ==
    /\ pc = "exited"
    /\ ReturnedAfterLoop
    /\ Len(merchants) = MaxMerchants
    /\ idx = MaxMerchants + 1
    /\ Len(activation_results) = MaxMerchants
    /\ ~raised

\* ------------------------------------------- the script's result value
\* the outcome the processing step puts on record
RecordedOutcome == activation_results'[Len(activation_results')]

\* C33: every path of the activation script that runs to its end leaves a
\* result object in window.activationResults.  The page holds no result of
\* an earlier merchant when the script is started; once the script has
\* written its object, the stored text is the text of that object, and the
\* outcome put on record for the merchant never carries "No results found".
C33_ScriptAlwaysAssignsResult ==
    /\ [](pc \in {"m_debug", "m_activate"} =>
            (windowResults = NoWindowValue /\ windowJSON = NoWindowText))
    /\ [][(pc = "m_activate" /\ pc' = "m_store") =>
            /\ \A page \in Pages :
                    /\ ActivationScript(page) # NoWindowValue
                    /\ "success" \in DOMAIN ActivationScript(page)
            /\ windowResults' \in {NoWindowValue} \cup {ActivationScript(page) : page \in Pages}]_vars
    /\ []((pc \in {"m_retrieve", "m_process"} /\ windowResults # NoWindowValue) =>
            windowJSON = JSONStringify(windowResults))
    /\ [][(pc = "m_process" /\ windowResults # NoWindowValue) =>
            ~("error" \in DOMAIN RecordedOutcome /\ RecordedOutcome.error = ErrNoResultsFound)]_vars

C33_Witness ==
    /\ pc = "m_process"
    /\ idx = 2
    /\ Len(activation_results) = 1
    /\ activation_results[1].success
    /\ activation_results[1].activated = 1
    /\ windowResults # NoWindowValue
    /\ windowResults.success
    /\ windowResults.activated = 0
    /\ CarriesText(results_json)
    /\ CarriedText(results_json) = JSONStringify(windowResults)

\* -------------------------------------------------------- the Notifier
\* notify() has returned (or was never called, with --no-notify)
NotifyReturned == pc \in {"n_classify", "n_exited"}

\* the condition the claim gives, from the aggregate and the options
NotifyCondition ==
    \/ /\ Len(results.successful) > 0
       /\ (IF "notify_on_success" \in DOMAIN options THEN options.notify_on_success ELSE TRUE)
    \/ /\ Len(results.failed) > 0
       /\ (IF "notify_on_failure" \in DOMAIN options THEN options.notify_on_failure ELSE TRUE)

ExitCodeOfAggregate ==
    IF Len(results.failed) > 0 /\ Len(results.successful) = 0 THEN 1 ELSE 0

====
